---- MODULE Spec2Model ----
(***************************************************************************)
(* A model of gap_buffer<T> (src/gap_buffer.hpp).  The storage is modelled *)
(* slot by slot: buffer is the sequence of the buffer_size physical slots  *)
(* (slot i of the C++ array is buffer[i + 1]), gap_start/gap_end/          *)
(* buffer_size are the fields of the class.  T is a trivially copyable     *)
(* element type (char in every instantiation of the repository): a moved-  *)
(* from or destroyed slot keeps its bytes, freshly allocated storage holds *)
(* indeterminate bytes.                                                    *)
(***************************************************************************)
EXTENDS Integers, Sequences, FiniteSets, TLC

\* ---------------------------------------------------------------- bounds
\* Number of public calls in one behaviour.
MaxOps == 3
\* Largest small count / size handed to the bulk calls.
MaxCount == 2
\* Largest storage (in slots) a behaviour may allocate: a call that would
\* allocate more is not made.
MaxSlots == 32
\* Number of public calls on a text_editor_buffer in one behaviour.
MaxTextOps == 2
\* longest text a buffer is constructed from where all texts are tried
MaxTextLen == 3

\* ------------------------------------------------------ program constants
\* grow(): "buffer_size == 0 ? 16 : buffer_size * 2"
SeedCapacity == 16
\* T() as constructed by resize(count): the value-initialised element.
DefaultValue == 0
\* A byte pattern no caller writes: stands for the content of storage that
\* alloc.allocate returned and nobody constructed into.
Junk == -1

\* The element values the callers write.
Values == {1, 2}
\* What freshly allocated, unconstructed storage may hold.
Indeterminate == Values \cup {Junk}

\* Logical positions handed to the calls for a sequence of n elements: the
\* first two and the last two (every position when n <= 3).
PosSet(n) == {0, 1, n - 1, n} \cap (0..n)
\* Counts handed to insert(pos, count, value).
Counts == {0, SeedCapacity}
\* Sizes handed to resize and reserve.
Sizes == {0, MaxCount, SeedCapacity + 1}
\* Source ranges handed to insert(pos, first, last).
Ranges == {<<>>, <<1, 2>>}

VARIABLES
    buffer,       \* T* buffer: the physical slots, <<>> when no storage is owned
    gap_start,    \* size_t gap_start
    gap_end,      \* size_t gap_end
    buffer_size,  \* size_t buffer_size
    op,           \* the last public call and its arguments
    ret,          \* what the last public call returned or threw
    realloc,      \* whether the last public call replaced the storage (called grow)
    ref,          \* a plain sequence driven by the same calls (std::vector semantics)
    ieOnly,       \* every call so far was an insert or erase overload (or the query at)
    reserved,     \* {n} while only single-element inserts ran since reserve(n), else {}
    nOps,         \* number of public calls made
    other,        \* a second gap_buffer object (buffer, gap_start, gap_end, buffer_size)
    aliased,      \* other.buffer and buffer are the same non-null pointer
    cursor_pos,        \* text_editor_buffer: size_t cursor_pos
    line_starts,       \* text_editor_buffer: mutable std::vector<size_t> line_starts
    line_cache_valid,  \* text_editor_buffer: mutable bool line_cache_valid
    frame,             \* the locals of a replace_all call that is inside its loop
    live,              \* the slots that hold a constructed element, as the calls of
                       \* SpecLifetime leave them; the other calls do not follow them
    guard              \* what the buffer_guard of the last grow() that was left by an
                       \* exception held and what its destructor did

vars == <<buffer, gap_start, gap_end, buffer_size, op, ret, realloc, ref, ieOnly,
          reserved, nOps, other, aliased, cursor_pos, line_starts, line_cache_valid,
          frame, live, guard>>

\* No replace_all call is running.
no_frame == [pc |-> "idle", search_text |-> <<>>, replacement |-> <<>>, pos |-> 0, count |-> 0]

\* No grow() was left by an exception.
no_guard == [capacity_ |-> 0, constructed_count_ |-> 0, released |-> FALSE,
             destroyed |-> {}, deallocated |-> 0]

\* The members text_editor_buffer adds to gap_buffer<char>.
text_vars == <<cursor_pos, line_starts, line_cache_valid>>

\* The object the member functions below work on.
self == [buffer |-> buffer, gap_start |-> gap_start, gap_end |-> gap_end,
         buffer_size |-> buffer_size]

\* gap_buffer(): no storage
gap_buffer == [buffer |-> <<>>, gap_start |-> 0, gap_end |-> 0, buffer_size |-> 0]

\* reserved when no reserve(n) is in force
NoReserve == {}

\* ------------------------------------------------------------- queries
size(b) == b.buffer_size - (b.gap_end - b.gap_start)

capacity(b) == b.buffer_size - (b.gap_end - b.gap_start)

empty(b) == size(b) = 0

\* operator[](pos)
elem(b, pos) ==
    IF pos >= b.gap_start THEN b.buffer[pos + (b.gap_end - b.gap_start) + 1]
    ELSE b.buffer[pos + 1]

\* The logical sequence, read position by position through operator[].
to_string(b) == [i \in 1..size(b) |-> elem(b, i - 1)]

\* at with its bound test off by one
at_mut(b, pos) ==
    IF pos >= size(b) - 1 THEN [kind |-> "out_of_range"]
    ELSE [kind |-> "value", value |-> elem(b, pos)]

at(b, pos) ==
    IF pos >= size(b) THEN [kind |-> "out_of_range"]
    ELSE [kind |-> "value", value |-> elem(b, pos)]

\* front(): "if (empty()) throw out_of_range; return buffer[0];"
front(b) ==
    IF empty(b) THEN [kind |-> "out_of_range"]
    ELSE [kind |-> "value", value |-> b.buffer[1]]

\* back(): "if (empty()) throw out_of_range; return (*this)[size() - 1];"
back(b) ==
    IF empty(b) THEN [kind |-> "out_of_range"]
    ELSE [kind |-> "value", value |-> elem(b, size(b) - 1)]

\* ------------------------------------------------------------ iterators
iterator(b, p) ==
    [kind |-> "iterator", pos |-> p, gap_start |-> b.gap_start,
     gap_end |-> b.gap_end, buffer_size |-> b.buffer_size]

real_pos(it) ==
    IF it.pos >= it.gap_start THEN it.pos + (it.gap_end - it.gap_start) ELSE it.pos

\* operator*: check_bounds(), then buffer[real_pos()]; buf is the storage the
\* iterator points into.
deref(it, buf) ==
    IF Len(buf) = 0 \/ it.pos > it.buffer_size - (it.gap_end - it.gap_start)
    THEN [kind |-> "out_of_range"]
    ELSE [kind |-> "value", value |-> buf[real_pos(it) + 1]]

end(b) == iterator(b, size(b))

\* iterator_impl(): the default-constructed iterator, buffer(nullptr)
iterator_impl == [kind |-> "iterator", pos |-> 0, gap_start |-> 0, gap_end |-> 0,
                  buffer_size |-> 0]

\* begin() + p
begin_plus(b, p) == iterator(b, p)

\* What a read outside the storage may do: yield any byte, or end the program.
OutOfStorage == {[kind |-> "value", value |-> v] : v \in Indeterminate}
                \cup {[kind |-> "terminated"]}

\* operator* on an iterator at any position: check_bounds(), then
\* buffer[real_pos()], which lies outside the buf.size() slots of the storage
\* when real_pos() >= buffer_size; that read is undefined and ub is its outcome.
dereference(it, buf, ub) ==
    IF Len(buf) = 0 \/ it.pos > it.buffer_size - (it.gap_end - it.gap_start)
    THEN [kind |-> "out_of_range"]
    ELSE IF real_pos(it) >= Len(buf) THEN ub
    ELSE [kind |-> "value", value |-> buf[real_pos(it) + 1]]

\* operator== of two iterators into the same storage
iter_eq(i1, i2) == i1.pos = i2.pos

\* -------------------------------------------------------- gap relocation
\* The loops below bind what one pass leaves as a value before the next pass
\* starts, so each pass is computed once and in the order the code runs it.
\* std::move_backward(buf + first, buf + last, buf + d_last)
RECURSIVE move_backward(_, _, _, _)
move_backward(buf, first, last, d_last) ==
    IF first = last THEN buf
    ELSE CHOOSE r \in {move_backward(moved, first, last - 1, d_last - 1) :
                         moved \in {[buf EXCEPT ![d_last] = buf[last]]}} : TRUE

\* std::move(buf + first, buf + last, buf + d_first)
RECURSIVE std_move(_, _, _, _)
std_move(buf, first, last, d_first) ==
    IF first = last THEN buf
    ELSE CHOOSE r \in {std_move(moved, first + 1, last, d_first + 1) :
                         moved \in {[buf EXCEPT ![d_first + 1] = buf[first + 1]]}} : TRUE

\* move_gap that moves the elements front to back in both directions
move_gap_mut(b, pos) ==
    IF pos = b.gap_start THEN b
    ELSE IF pos < b.gap_start THEN
        LET count == b.gap_start - pos
        IN [b EXCEPT !.buffer = std_move(b.buffer, pos, b.gap_start, b.gap_end - count),
                     !.gap_end = b.gap_end - count,
                     !.gap_start = b.gap_start - count]
    ELSE
        LET count == pos - b.gap_start
        IN [b EXCEPT !.buffer = std_move(b.buffer, b.gap_end, b.gap_end + count, b.gap_start),
                     !.gap_start = b.gap_start + count,
                     !.gap_end = b.gap_end + count]

move_gap(b, pos) ==
    IF pos = b.gap_start THEN b
    ELSE IF pos < b.gap_start THEN
        LET count == b.gap_start - pos
        IN [b EXCEPT !.buffer = move_backward(b.buffer, pos, b.gap_start, b.gap_end),
                     !.gap_end = b.gap_end - count,
                     !.gap_start = b.gap_start - count]
    ELSE
        LET count == pos - b.gap_start
        IN [b EXCEPT !.buffer = std_move(b.buffer, b.gap_end, b.gap_end + count, b.gap_start),
                     !.gap_start = b.gap_start + count,
                     !.gap_end = b.gap_end + count]

\* ---------------------------------------------------------------- growth
\* grow that commits gap_end without taking the live elements off the new capacity
grow_mut(b, min_capacity, fill) ==
    LET doubled == IF b.buffer_size = 0 THEN SeedCapacity ELSE b.buffer_size * 2
        new_capacity == IF min_capacity > 0 /\ doubled < min_capacity
                        THEN min_capacity ELSE doubled
    IN [buffer |-> [i \in 1..new_capacity |->
                      IF b.buffer_size # 0 /\ i <= b.gap_start THEN b.buffer[i] ELSE fill],
        gap_start |-> b.gap_start,
        gap_end |-> b.gap_start + new_capacity,
        buffer_size |-> new_capacity]

\* fill is what the storage returned by alloc.allocate happens to hold.
grow(b, min_capacity, fill) ==
    LET old_size == size(b)
        doubled == IF b.buffer_size = 0 THEN SeedCapacity ELSE b.buffer_size * 2
        new_capacity == IF min_capacity > 0 /\ doubled < min_capacity
                        THEN min_capacity ELSE doubled
        copies == b.buffer_size # 0 /\ old_size > 0
        before_gap == b.gap_start
        after_gap == b.buffer_size - b.gap_end
        new_buffer == [i \in 1..new_capacity |->
                         IF copies /\ i <= before_gap THEN b.buffer[i]
                         ELSE IF copies /\ i <= before_gap + after_gap
                              THEN b.buffer[b.gap_end + (i - before_gap)]
                         ELSE fill]
    IN [buffer |-> new_buffer,
        gap_start |-> b.gap_start,
        gap_end |-> b.gap_start + (new_capacity - old_size),
        buffer_size |-> new_capacity]

reserve(b, new_cap, fill) ==
    IF new_cap > capacity(b)
    THEN [self |-> grow(b, new_cap + (b.gap_end - b.gap_start), fill),
          ret |-> [kind |-> "void"], realloc |-> TRUE]
    ELSE [self |-> b, ret |-> [kind |-> "void"], realloc |-> FALSE]

\* ------------------------------------------------------------- modifiers
\* allocator_traits::construct(alloc, buffer + slot, value)
construct(b, slot, value) == [b EXCEPT !.buffer[slot + 1] = value]

\* "construct at gap_start; ++gap_start" for each element of xs in turn
RECURSIVE construct_all(_, _)
construct_all(b, xs) ==
    IF xs = <<>> THEN b
    ELSE CHOOSE r \in {construct_all(constructed, rest) :
                         constructed \in {[construct(b, b.gap_start, Head(xs))
                                             EXCEPT !.gap_start = b.gap_start + 1]},
                         rest \in {Tail(xs)}} : TRUE

\* insert that grows the storage on every call
insert_mut(b, position, value, fill) ==
    LET m == move_gap(b, position)
        g == grow(m, 0, fill)
        old_gap_start == g.gap_start
        r == construct_all(g, <<value>>)
    IN [self |-> r, ret |-> iterator(r, old_gap_start), realloc |-> TRUE]

\* insert(pos, value); insert(pos, T&&) and emplace(pos, args...) have the same body
insert(b, position, value, fill) ==
    LET m == move_gap(b, position)
        full == m.gap_end = m.gap_start
        g == IF full THEN grow(m, 0, fill) ELSE m
        old_gap_start == g.gap_start
        r == construct_all(g, <<value>>)
    IN [self |-> r, ret |-> iterator(r, old_gap_start), realloc |-> full]

Copies(count, value) == [i \in 1..count |-> value]

\* insert(pos, count, value)
insert_count(b, position, count, value, fill) ==
    IF count = 0
    THEN [self |-> b, ret |-> iterator(b, position), realloc |-> FALSE]
    ELSE LET m == move_gap(b, position)
             short == m.gap_end - m.gap_start < count
             g == IF short
                  THEN grow(m, m.buffer_size + count - (m.gap_end - m.gap_start), fill)
                  ELSE m
             old_gap_start == g.gap_start
             r == construct_all(g, Copies(count, value))
         IN [self |-> r, ret |-> iterator(r, old_gap_start), realloc |-> short]

\* insert(pos, first, last); xs is the source range [first, last)
insert_range(b, position, xs, fill) ==
    LET m == move_gap(b, position)
        count == Len(xs)
    IN IF count = 0
       THEN [self |-> m, ret |-> iterator(m, position), realloc |-> FALSE]
       ELSE LET short == m.gap_end - m.gap_start < count
                g == IF short
                     THEN grow(m, m.buffer_size + count - (m.gap_end - m.gap_start), fill)
                     ELSE m
                old_gap_start == g.gap_start
                r == construct_all(g, xs)
            IN [self |-> r, ret |-> iterator(r, old_gap_start), realloc |-> short]

\* "for (i = 0; i < count && gap_end < buffer_size; ++i) { destroy; ++gap_end; }"
RECURSIVE erase_loop(_, _, _)
erase_loop(b, i, count) ==
    IF i < count /\ b.gap_end < b.buffer_size
    THEN CHOOSE r \in {erase_loop(destroyed, i + 1, count) :
                         destroyed \in {[b EXCEPT !.gap_end = b.gap_end + 1]}} : TRUE
    ELSE b

\* erase that does not move the gap to first
erase_mut(b, first, last) ==
    IF first = last
    THEN [self |-> b, ret |-> iterator(b, first), realloc |-> FALSE]
    ELSE LET r == erase_loop(b, 0, last - first)
         IN [self |-> r, ret |-> iterator(r, first), realloc |-> FALSE]

\* erase(first, last); erase(pos) is erase(pos, pos + 1)
erase(b, first, last) ==
    IF first = last
    THEN [self |-> b, ret |-> iterator(b, first), realloc |-> FALSE]
    ELSE LET position == first
             count == last - first
             m == move_gap(b, position)
             r == erase_loop(m, 0, count)
         IN [self |-> r, ret |-> iterator(r, position), realloc |-> FALSE]

\* push_back(value), emplace_back(args...)
push_back(b, value, fill) ==
    LET m == move_gap(b, size(b))
        full == m.gap_end = m.gap_start
        g == IF full THEN grow(m, 0, fill) ELSE m
        r == construct_all(g, <<value>>)
    IN [self |-> r, ret |-> [kind |-> "void"], realloc |-> full]

pop_back(b) ==
    IF empty(b) THEN [self |-> b, ret |-> [kind |-> "void"], realloc |-> FALSE]
    ELSE LET last_pos == size(b) - 1
         IN IF last_pos < b.gap_start
            THEN [self |-> [b EXCEPT !.gap_start = b.gap_start - 1],
                  ret |-> [kind |-> "void"], realloc |-> FALSE]
            ELSE [self |-> [b EXCEPT !.gap_end = b.gap_end + 1],
                  ret |-> [kind |-> "void"], realloc |-> FALSE]

RECURSIVE pop_back_times(_, _)
pop_back_times(b, n) ==
    IF n = 0 THEN b
    ELSE CHOOSE r \in {pop_back_times(popped, n - 1) : popped \in {pop_back(b).self}} : TRUE

\* resize(count) and resize(count, value): value is T() for the first form
resize(b, count, value, fill) ==
    LET current_size == size(b)
    IN IF count > current_size
       THEN LET rs == reserve(b, count, fill)
                m == move_gap(rs.self, current_size)
                r == construct_all(m, Copies(count - current_size, value))
            IN [self |-> r, ret |-> [kind |-> "void"], realloc |-> rs.realloc]
       ELSE IF count < current_size
       THEN [self |-> pop_back_times(b, current_size - count),
             ret |-> [kind |-> "void"], realloc |-> FALSE]
       ELSE [self |-> b, ret |-> [kind |-> "void"], realloc |-> FALSE]

\* clear that leaves the elements in place
clear_mut(b) == b

\* clear(): destroy the live elements, the whole storage becomes the gap
clear(b) == [b EXCEPT !.gap_start = 0, !.gap_end = b.buffer_size]

\* assign(count, value)
assign_count(b, count, value, fill) ==
    LET c == clear(b)
        short == c.buffer_size < count
        g == IF short THEN grow(c, count, fill) ELSE c
        filled == [i \in 1..g.buffer_size |-> IF i <= count THEN value ELSE g.buffer[i]]
    IN IF count > 0
       THEN [self |-> [g EXCEPT !.buffer = filled, !.gap_start = count,
                                !.gap_end = g.buffer_size],
             ret |-> [kind |-> "void"], realloc |-> short]
       ELSE [self |-> c, ret |-> [kind |-> "void"], realloc |-> FALSE]

\* assign(first, last): xs is the sequence [first, last) designates
assign_range(b, xs, fill) ==
    LET c == clear(b)
        r == insert_range(c, 0, xs, fill)
    IN [self |-> r.self, ret |-> [kind |-> "void"], realloc |-> r.realloc]

\* ---------------------------------------------- the reference sequence
InsertAt(s, p, xs) == SubSeq(s, 1, p) \o xs \o SubSeq(s, p + 1, Len(s))

RemoveRange(s, first, last) == SubSeq(s, 1, first) \o SubSeq(s, last + 1, Len(s))

Resized(s, n, v) ==
    IF n <= Len(s) THEN SubSeq(s, 1, n) ELSE s \o Copies(n - Len(s), v)

\* ---------------------------------------------------------------- actions
Init ==
    /\ buffer = <<>>
    /\ gap_start = 0
    /\ gap_end = 0
    /\ buffer_size = 0
    /\ op = [name |-> "gap_buffer"]
    /\ ret = [kind |-> "void"]
    /\ realloc = FALSE
    /\ ref = <<>>
    /\ ieOnly = TRUE
    /\ reserved = NoReserve
    /\ nOps = 0
    /\ other = gap_buffer
    /\ aliased = FALSE
    /\ cursor_pos = 0
    /\ line_starts = <<>>
    /\ line_cache_valid = FALSE
    /\ frame = no_frame
    /\ live = {}
    /\ guard = no_guard

\* The fill only matters to a call that allocates.
Fills(allocates) == IF allocates THEN Indeterminate ELSE {Junk}

\* What the object o holds after a call on the object it shares its storage
\* with: the writes of the call, or, when the call replaced the storage
\* (grow deallocates it), a dangling pointer to slots holding fill.
Sharing(o, storage, replaced, fill) ==
    IF ~aliased THEN o
    ELSE IF replaced THEN [o EXCEPT !.buffer = [i \in 1..Len(o.buffer) |-> fill]]
    ELSE [o EXCEPT !.buffer = storage]

\* One public call: r is what the member function computed.
Call(call, r, newRef, ie, rsv) ==
    LET res == r
        b == res.self
    IN /\ nOps < MaxOps
       /\ \E f \in Fills(aliased /\ res.realloc) :
            other' = Sharing(other, b.buffer, res.realloc, f)
       /\ aliased' = (aliased /\ ~res.realloc)
       /\ UNCHANGED <<text_vars, frame, live, guard>>
       /\ b.buffer_size <= MaxSlots
       /\ buffer' = b.buffer
       /\ gap_start' = b.gap_start
       /\ gap_end' = b.gap_end
       /\ buffer_size' = b.buffer_size
       /\ op' = call
       /\ ret' = res.ret
       /\ realloc' = res.realloc
       /\ ref' = newRef
       /\ ieOnly' = (ieOnly /\ ie)
       /\ reserved' = rsv
       /\ nOps' = nOps + 1

Insert ==
    \E p \in PosSet(size(self)), v \in Values :
      \E f \in Fills(gap_end = gap_start) :
        Call([name |-> "insert", pos |-> p, val |-> v], insert(self, p, v, f),
             InsertAt(ref, p, <<v>>), TRUE, reserved)

PushBack ==
    \E v \in Values :
      \E f \in Fills(gap_end = gap_start) :
        Call([name |-> "push_back", val |-> v], push_back(self, v, f),
             ref \o <<v>>, FALSE, reserved)

InsertCount ==
    \E p \in {0, size(self)}, c \in Counts, v \in Values :
      \E f \in Fills(c > 0 /\ gap_end - gap_start < c) :
        Call([name |-> "insert_count", pos |-> p, n |-> c, val |-> v],
             insert_count(self, p, c, v, f),
             InsertAt(ref, p, Copies(c, v)), TRUE, NoReserve)

InsertRange ==
    \E p \in PosSet(size(self)), xs \in Ranges :
      \E f \in Fills(gap_end - gap_start < Len(xs)) :
        Call([name |-> "insert_range", pos |-> p, xs |-> xs],
             insert_range(self, p, xs, f),
             InsertAt(ref, p, xs), TRUE, NoReserve)

Erase ==
    \E first \in PosSet(size(self)), last \in PosSet(size(self)) :
      /\ first <= last
      /\ Call([name |-> "erase", pos |-> first, n |-> last],
              erase(self, first, last),
              RemoveRange(ref, first, last), TRUE, NoReserve)

PopBack ==
    /\ ~empty(self)
    /\ Call([name |-> "pop_back"], pop_back(self),
            SubSeq(ref, 1, Len(ref) - 1), FALSE, NoReserve)

Resize ==
    \E c \in Sizes :
      \E f \in Fills(c > capacity(self)) :
        Call([name |-> "resize", n |-> c],
             resize(self, c, DefaultValue, f),
             Resized(ref, c, DefaultValue), FALSE, NoReserve)

ResizeFill ==
    \E c \in Sizes, v \in Values :
      \E f \in Fills(c > capacity(self)) :
        Call([name |-> "resize_fill", n |-> c, val |-> v],
             resize(self, c, v, f),
             Resized(ref, c, v), FALSE, NoReserve)

Reserve ==
    \E c \in Sizes :
      \E f \in Fills(c > capacity(self)) :
        Call([name |-> "reserve", n |-> c], reserve(self, c, f), ref, FALSE, {c})

At ==
    \E p \in PosSet(size(self)) \cup {size(self) + 1} :
      Call([name |-> "at", pos |-> p],
           [self |-> self, ret |-> at(self, p), realloc |-> FALSE], ref, TRUE, NoReserve)

AssignCount ==
    \E c \in Counts, v \in Values :
      \E f \in Fills(buffer_size < c) :
        Call([name |-> "assign_count", n |-> c, val |-> v],
             assign_count(self, c, v, f), Copies(c, v), FALSE, NoReserve)

AssignRange ==
    \E xs \in Ranges :
      \E f \in Fills(buffer_size < Len(xs)) :
        Call([name |-> "assign_range", xs |-> xs],
             assign_range(self, xs, f), xs, FALSE, NoReserve)

Next ==
    \/ Insert
    \/ PushBack
    \/ InsertCount
    \/ InsertRange
    \/ Erase
    \/ PopBack
    \/ Resize
    \/ ResizeFill
    \/ Reserve
    \/ At
    \/ AssignCount
    \/ AssignRange

Spec == Init /\ [][Next]_vars

\* ------------------------------------------------- allocation failure
\* alloc.allocate in grow() throws std::bad_alloc: grow has changed nothing
\* yet, and the exception leaves the member function that called it. b is
\* the buffer as that function had left it when it called grow.
bad_alloc(b) == [self |-> b, ret |-> [kind |-> "bad_alloc"], realloc |-> FALSE]

insert_bad_alloc(b, position) == bad_alloc(move_gap(b, position))

push_back_bad_alloc(b) == bad_alloc(move_gap(b, size(b)))

reserve_bad_alloc(b) == bad_alloc(b)

resize_bad_alloc(b) == reserve_bad_alloc(b)

assign_count_bad_alloc(b) == bad_alloc(clear(b))

assign_range_bad_alloc(b) == insert_bad_alloc(clear(b), 0)

\* A call whose allocation fails: the caller's view of the content (ref) is
\* what it was.
Throws(call, r) == Call(call, r, ref, ieOnly, reserved)

InsertBadAlloc ==
    \E p \in PosSet(size(self)), v \in Values :
      /\ move_gap(self, p).gap_end = move_gap(self, p).gap_start
      /\ Throws([name |-> "insert", pos |-> p, val |-> v], insert_bad_alloc(self, p))

PushBackBadAlloc ==
    \E v \in Values :
      /\ gap_end = gap_start
      /\ Throws([name |-> "push_back", val |-> v], push_back_bad_alloc(self))

InsertCountBadAlloc ==
    \E p \in {0, size(self)}, c \in Counts, v \in Values :
      /\ c > 0 /\ gap_end - gap_start < c
      /\ Throws([name |-> "insert_count", pos |-> p, n |-> c, val |-> v],
                insert_bad_alloc(self, p))

InsertRangeBadAlloc ==
    \E p \in PosSet(size(self)), xs \in Ranges :
      /\ Len(xs) > 0 /\ gap_end - gap_start < Len(xs)
      /\ Throws([name |-> "insert_range", pos |-> p, xs |-> xs], insert_bad_alloc(self, p))

ReserveBadAlloc ==
    \E c \in Sizes :
      /\ c > capacity(self)
      /\ Throws([name |-> "reserve", n |-> c], reserve_bad_alloc(self))

ResizeBadAlloc ==
    \E c \in Sizes :
      /\ c > size(self)
      /\ Throws([name |-> "resize", n |-> c], resize_bad_alloc(self))

AssignCountBadAlloc ==
    \E c \in Sizes, v \in Values :
      /\ c > 0 /\ buffer_size < c
      /\ Throws([name |-> "assign_count", n |-> c, val |-> v], assign_count_bad_alloc(self))

AssignRangeBadAlloc ==
    \E c \in Sizes, v \in Values :
      /\ c > 0 /\ buffer_size < c
      /\ Throws([name |-> "assign_range", xs |-> Copies(c, v)], assign_range_bad_alloc(self))

NextAlloc ==
    \/ Next
    \/ InsertBadAlloc
    \/ PushBackBadAlloc
    \/ InsertCountBadAlloc
    \/ InsertRangeBadAlloc
    \/ ReserveBadAlloc
    \/ ResizeBadAlloc
    \/ AssignCountBadAlloc
    \/ AssignRangeBadAlloc

SpecAlloc == Init /\ [][NextAlloc]_vars

\* ------------------------------------------- construction failure in grow
\* Here T is a class type whose construction can throw.  std::move_if_noexcept
\* (lines 92, 100) hands the old element to construct as const T& when T is
\* copy constructible (the copy constructor runs, the old element is not
\* written), and as T&& when T is move-only (the move constructor runs and
\* leaves the old element in its moved-from state).  A T whose move
\* constructor is noexcept cannot fail here.

\* What a moved-from element holds: a value no caller wrote.
MovedFrom == -2

\* ~buffer_guard() with its loop running one element too far
buffer_guard_dtor_mut(g) ==
    IF g.released THEN g
    ELSE [g EXCEPT !.destroyed = 0..g.constructed_count_,
                   !.deallocated = g.deallocated + 1]

\* ~buffer_guard(): "if (buffer_) { destroy [0, constructed_count_); deallocate }"
buffer_guard_dtor(g) ==
    IF g.released THEN g
    ELSE [g EXCEPT !.destroyed = 0..(g.constructed_count_ - 1),
                   !.deallocated = g.deallocated + 1]

\* The old slot the i-th construction of grow reads (i from 0): the prefix
\* loop reads buffer[i], the suffix loop buffer[gap_end + i'].
grow_source(b, i) ==
    IF i < b.gap_start THEN i ELSE b.gap_end + (i - b.gap_start)

\* grow(min_capacity) when the k-th construct (k from 1) throws: the loops
\* have constructed k - 1 elements, the exception unwinds through
\* buffer_guard and leaves grow before anything is committed.  moves: T is
\* move-only; mf: what its move constructor leaves behind; partial: whether
\* the construction that threw had already written its source.
grow_throws(b, min_capacity, k, moves, mf, partial) ==
    LET doubled == IF b.buffer_size = 0 THEN SeedCapacity ELSE b.buffer_size * 2
        new_capacity == IF min_capacity > 0 /\ doubled < min_capacity
                        THEN min_capacity ELSE doubled
        constructed == [capacity_ |-> new_capacity, constructed_count_ |-> k - 1,
                        released |-> FALSE, destroyed |-> {}, deallocated |-> 0]
        written == IF ~moves THEN {}
                   ELSE {grow_source(b, i) : i \in 0..(k - 2)}
                        \cup (IF partial THEN {grow_source(b, k - 1)} ELSE {})
    IN [self |-> [b EXCEPT !.buffer = [j \in 1..b.buffer_size |->
                                         IF (j - 1) \in written THEN mf ELSE b.buffer[j]]],
        guard |-> buffer_guard_dtor(constructed),
        ret |-> [kind |-> "construct_failed"],
        realloc |-> FALSE]

\* reserve(new_cap) whose grow throws
reserve_throws(b, new_cap, k, moves, mf, partial) ==
    grow_throws(b, new_cap + (b.gap_end - b.gap_start), k, moves, mf, partial)

\* insert(pos, value) whose grow throws: move_gap has run
insert_throws(b, position, k, moves, mf, partial) ==
    grow_throws(move_gap(b, position), 0, k, moves, mf, partial)

\* The constructions that may throw: the first, the second and the last.
FailAt(n) == {1, 2, n} \cap (1..n)

\* What a move constructor leaves in its source.
MovedFromValues == Values \cup {MovedFrom}

\* A call left by the exception of a construct in grow.
GrowThrows(call, r) ==
    /\ nOps < MaxOps
    /\ buffer' = r.self.buffer
    /\ gap_start' = r.self.gap_start
    /\ gap_end' = r.self.gap_end
    /\ buffer_size' = r.self.buffer_size
    /\ op' = call
    /\ ret' = r.ret
    /\ realloc' = r.realloc
    /\ guard' = r.guard
    /\ nOps' = nOps + 1
    /\ UNCHANGED <<ref, ieOnly, reserved, other, aliased, text_vars, frame, live>>

ReserveThrows ==
    \E n \in Sizes, k \in FailAt(size(self)), moves \in BOOLEAN,
       mf \in MovedFromValues, partial \in BOOLEAN :
      /\ n > capacity(self)
      /\ moves \/ (mf = MovedFrom /\ ~partial)
      /\ GrowThrows([name |-> "reserve", n |-> n, k |-> k, moves |-> moves],
                    reserve_throws(self, n, k, moves, mf, partial))

InsertThrows ==
    \E p \in PosSet(size(self)), v \in Values, k \in FailAt(size(self)),
       moves \in BOOLEAN, mf \in MovedFromValues, partial \in BOOLEAN :
      /\ gap_end = gap_start
      /\ moves \/ (mf = MovedFrom /\ ~partial)
      /\ GrowThrows([name |-> "insert", pos |-> p, val |-> v, k |-> k, moves |-> moves],
                    insert_throws(self, p, k, moves, mf, partial))

NextGrow ==
    \/ Insert
    \/ InsertCount
    \/ Erase
    \/ Reserve
    \/ ReserveThrows
    \/ InsertThrows

SpecGrow == Init /\ [][NextGrow]_vars

\* ------------------------------------------------------- element access
\* front(), back() and the dereference of a fresh iterator, between calls that
\* place the gap anywhere.
Front ==
    Call([name |-> "front"], [self |-> self, ret |-> front(self), realloc |-> FALSE],
         ref, TRUE, reserved)

Back ==
    Call([name |-> "back"], [self |-> self, ret |-> back(self), realloc |-> FALSE],
         ref, TRUE, reserved)

\* *(begin() + p), for p up to one past end(); the outcome ub is drawn only
\* for a read that leaves the storage
Dereference ==
    \E p \in PosSet(size(self)) \cup {size(self) + 1}, ub \in OutOfStorage :
      /\ real_pos(begin_plus(self, p)) < buffer_size => ub = [kind |-> "terminated"]
      /\ Call([name |-> "dereference", pos |-> p, default |-> FALSE],
              [self |-> self, ret |-> dereference(begin_plus(self, p), buffer, ub),
               realloc |-> FALSE],
              ref, TRUE, reserved)

\* *iterator()
DereferenceDefault ==
    Call([name |-> "dereference", pos |-> 0, default |-> TRUE],
         [self |-> self, ret |-> dereference(iterator_impl, <<>>, [kind |-> "terminated"]),
          realloc |-> FALSE],
         ref, TRUE, reserved)

NextAccess ==
    \/ Insert
    \/ PushBack
    \/ Erase
    \/ InsertRange
    \/ Front
    \/ Back
    \/ Dereference
    \/ DereferenceDefault

SpecAccess == Init /\ [][NextAccess]_vars

\* ------------------------------------------------------------- copies
\* What iterating [b.begin(), b.end()) yields: operator* at each position.
range(b) == [i \in 1..size(b) |-> deref(iterator(b, i - 1), b.buffer).value]

\* a copy constructor that copies the members
copy_construct_mut(src, fill) == [self |-> src, aliases |-> src.buffer_size # 0]

\* gap_buffer(const gap_buffer& other): assign(other.begin(), other.end()) on
\* a buffer without storage; the storage comes from alloc.allocate
copy_construct(src, fill) ==
    [self |-> assign_range(gap_buffer, range(src), fill).self, aliases |-> FALSE]

\* operator=(const gap_buffer& other): gap_buffer tmp(other); swap(tmp);
\* what dst held leaves with tmp
copy_assign(dst, src, fill) == copy_construct(src, fill)

\* One public call on the second object.
CallOther(call, r) ==
    /\ nOps < MaxOps
    /\ r.self.buffer_size <= MaxSlots
    /\ other' = r.self
    /\ \E f \in Fills(aliased /\ r.realloc) :
         LET left == Sharing(self, r.self.buffer, r.realloc, f)
         IN buffer' = left.buffer
    /\ aliased' = (aliased /\ ~r.realloc)
    /\ op' = call
    /\ ret' = r.ret
    /\ realloc' = r.realloc
    /\ nOps' = nOps + 1
    /\ UNCHANGED <<gap_start, gap_end, buffer_size, ref, ieOnly, reserved>>
    /\ UNCHANGED <<text_vars, frame, live, guard>>

\* gap_buffer other(*this)
CopyConstruct ==
    \E f \in Fills(size(self) > 0) :
      LET c == copy_construct(self, f)
      IN /\ nOps < MaxOps
         /\ other' = c.self
         /\ aliased' = c.aliases
         /\ op' = [name |-> "copy"]
         /\ ret' = [kind |-> "void"]
         /\ realloc' = FALSE
         /\ nOps' = nOps + 1
         /\ UNCHANGED <<buffer, gap_start, gap_end, buffer_size, ref, ieOnly, reserved>>
         /\ UNCHANGED <<text_vars, frame, live, guard>>

\* other = *this; the destructor of tmp frees the storage other had
CopyAssign ==
    \E f \in Fills(size(self) > 0), g \in Fills(aliased) :
      LET c == copy_assign(other, self, f)
      IN /\ nOps < MaxOps
         /\ other' = IF aliased /\ c.aliases
                     THEN Sharing(c.self, c.self.buffer, TRUE, g) ELSE c.self
         /\ buffer' = Sharing(self, buffer, TRUE, g).buffer
         /\ aliased' = c.aliases
         /\ op' = [name |-> "copy_assign"]
         /\ ret' = [kind |-> "void"]
         /\ realloc' = FALSE
         /\ nOps' = nOps + 1
         /\ UNCHANGED <<gap_start, gap_end, buffer_size, ref, ieOnly, reserved>>
         /\ UNCHANGED <<text_vars, frame, live, guard>>

OtherInsert ==
    \E p \in PosSet(size(other)), v \in Values :
      \E f \in Fills(other.gap_end = other.gap_start) :
        CallOther([name |-> "other.insert", pos |-> p, val |-> v], insert(other, p, v, f))

OtherErase ==
    \E first, last \in PosSet(size(other)) :
      /\ first <= last
      /\ CallOther([name |-> "other.erase", pos |-> first, n |-> last],
                   erase(other, first, last))

NextCopy ==
    \/ Insert
    \/ InsertRange
    \/ Erase
    \/ CopyConstruct
    \/ CopyAssign
    \/ OtherInsert
    \/ OtherErase

SpecCopy == Init /\ [][NextCopy]_vars

\* ------------------------------------------------- text_editor_buffer
\* '\n' and '\r'; the other characters are written as their codes (97 is 'a')
LF == 10
CR == 13

\* The text_editor_buffer object: the gap_buffer<char> members and its own.
text_self ==
    [buffer |-> buffer, gap_start |-> gap_start, gap_end |-> gap_end,
     buffer_size |-> buffer_size, cursor_pos |-> cursor_pos,
     line_starts |-> line_starts, line_cache_valid |-> line_cache_valid]

\* The gap_buffer<char> base subobject of t, and t with the base replaced by b.
base(t) ==
    [buffer |-> t.buffer, gap_start |-> t.gap_start, gap_end |-> t.gap_end,
     buffer_size |-> t.buffer_size]

derived(t, b) ==
    [t EXCEPT !.buffer = b.buffer, !.gap_start = b.gap_start, !.gap_end = b.gap_end,
              !.buffer_size = b.buffer_size]

min(a, b) == IF b < a THEN b ELSE a

\* the loop of update_line_cache from position i on
RECURSIVE scan_lines(_, _, _)
scan_lines(t, i, starts) ==
    IF i < size(t)
    THEN scan_lines(t, i + 1, IF elem(t, i) = LF THEN Append(starts, i + 1) ELSE starts)
    ELSE starts

update_line_cache(t) ==
    IF t.line_cache_valid THEN t
    ELSE [t EXCEPT !.line_starts = scan_lines(t, 0, <<0>>), !.line_cache_valid = TRUE]

invalidate_line_cache(t) == [t EXCEPT !.line_cache_valid = FALSE]

set_cursor_position(t, pos) ==
    [self |-> [t EXCEPT !.cursor_pos = min(pos, size(t))], ret |-> [kind |-> "void"],
     realloc |-> FALSE]

set_cursor_line_column(t, line, column) ==
    LET u == update_line_cache(t)
        line_start == u.line_starts[line + 1]
        line_end == IF line + 1 < Len(u.line_starts)
                    THEN u.line_starts[line + 2] - 1 ELSE size(u)
    IN [self |-> IF line >= Len(u.line_starts) THEN [u EXCEPT !.cursor_pos = size(u)]
                 ELSE [u EXCEPT !.cursor_pos = min(line_start + column, line_end)],
        ret |-> [kind |-> "void"], realloc |-> FALSE]

\* cursor_position(l, c, a)
cursor_position(l, c, a) ==
    [kind |-> "cursor_position", line |-> l, column |-> c, absolute_pos |-> a]

\* std::upper_bound(line_starts.begin(), line_starts.end(), value): the index
\* (from 1) of the first element greater than value, Len + 1 when there is none
upper_bound(starts, value) ==
    IF \E k \in 1..Len(starts) : starts[k] > value
    THEN CHOOSE k \in 1..Len(starts) :
           /\ starts[k] > value
           /\ \A j \in 1..(k - 1) : ~(starts[j] > value)
    ELSE Len(starts) + 1

get_cursor_line_column(t) ==
    LET u == update_line_cache(t)
        upper == upper_bound(u.line_starts, u.cursor_pos)
        it == IF upper # 1 THEN upper - 1 ELSE upper
        line == it - 1
        column == u.cursor_pos - u.line_starts[it]
    IN [self |-> u,
        ret |-> IF u.line_starts = <<>>
                THEN cursor_position(0, u.cursor_pos, u.cursor_pos)
                ELSE cursor_position(line, column, u.cursor_pos),
        realloc |-> FALSE]

get_line_count(t) ==
    LET u == update_line_cache(t)
    IN [self |-> u, ret |-> [kind |-> "value", value |-> Len(u.line_starts)],
        realloc |-> FALSE]

\* The end of line `line` as get_line_length and get_line compute it.
line_end_of(u, line) ==
    LET start == u.line_starts[line + 1]
        end0 == IF line + 1 < Len(u.line_starts)
                THEN u.line_starts[line + 2] - 1 ELSE size(u)
    IN IF end0 > start /\ end0 <= size(u) /\ elem(u, end0 - 1) = LF
       THEN end0 - 1 ELSE end0

\* end - start is computed in size_t: a negative value d stands for 2^64 + d.
get_line_length(t, line) ==
    LET u == update_line_cache(t)
    IN [self |-> u,
        ret |-> IF line >= Len(u.line_starts) THEN [kind |-> "value", value |-> 0]
                ELSE [kind |-> "value",
                      value |-> line_end_of(u, line) - u.line_starts[line + 1]],
        realloc |-> FALSE]

\* operator[] has no bound test: beyond size() it reads outside the live
\* elements, which is undefined; ub is what such a read yields.
subscript(b, pos, ub) == IF pos < size(b) THEN elem(b, pos) ELSE ub

\* result.reserve(end - start) throws std::length_error when end < start.
get_line(t, line, ub) ==
    LET u == update_line_cache(t)
        start == u.line_starts[line + 1]
        end1 == line_end_of(u, line)
    IN [self |-> u,
        ret |-> IF line >= Len(u.line_starts) THEN [kind |-> "string", value |-> <<>>]
                ELSE IF end1 < start THEN [kind |-> "length_error"]
                ELSE [kind |-> "string",
                      value |-> [k \in 1..(end1 - start) |-> subscript(u, start + k - 1, ub)]],
        realloc |-> FALSE]

\* insert_text(pos, text)
insert_text(t, pos, text, fill) ==
    IF text = <<>> THEN [self |-> t, ret |-> [kind |-> "void"], realloc |-> FALSE]
    ELSE LET r == insert_range(base(t), pos, text, fill)
             i == derived(t, r.self)
             c == IF pos <= t.cursor_pos
                  THEN [i EXCEPT !.cursor_pos = t.cursor_pos + Len(text)] ELSE i
         IN [self |-> invalidate_line_cache(c), ret |-> [kind |-> "void"],
             realloc |-> r.realloc]

\* delete_text that leaves the cursor where it was
delete_text_mut(t, pos, count) ==
    IF pos >= size(t) \/ count = 0
    THEN [self |-> t, ret |-> [kind |-> "void"], realloc |-> FALSE]
    ELSE LET n == min(count, size(t) - pos)
             r == erase(base(t), pos, pos + n)
         IN [self |-> invalidate_line_cache(derived(t, r.self)),
             ret |-> [kind |-> "void"], realloc |-> FALSE]

delete_text(t, pos, count) ==
    IF pos >= size(t) \/ count = 0
    THEN [self |-> t, ret |-> [kind |-> "void"], realloc |-> FALSE]
    ELSE LET n == min(count, size(t) - pos)
             r == erase(base(t), pos, pos + n)
             e == derived(t, r.self)
             c == IF pos < t.cursor_pos
                  THEN [e EXCEPT !.cursor_pos = IF t.cursor_pos >= pos + n
                                                THEN t.cursor_pos - n ELSE pos]
                  ELSE e
         IN [self |-> invalidate_line_cache(c), ret |-> [kind |-> "void"],
             realloc |-> FALSE]

\* delete_text(pos, count); insert_text(pos, replacement). The buffer that
\* delete_text leaves is bound as a value, so it is computed once.
replace_text(t, pos, count, replacement, fill) ==
    CHOOSE r \in {insert_text(deleted, pos, replacement, fill) :
                    deleted \in {delete_text(t, pos, count).self}} : TRUE

\* the loop without the step over the '\n' of a "\r\n"
RECURSIVE convert_loop_mut(_, _, _, _)
convert_loop_mut(buffer_text, i, target_ending, result) ==
    IF i >= Len(buffer_text) THEN result
    ELSE LET ch == buffer_text[i + 1]
         IN IF ch = CR \/ ch = LF
            THEN convert_loop_mut(buffer_text, i + 1, target_ending, result \o target_ending)
            ELSE convert_loop_mut(buffer_text, i + 1, target_ending, Append(result, ch))

\* the loop of convert_line_endings from index i on
RECURSIVE convert_loop(_, _, _, _)
convert_loop(buffer_text, i, target_ending, result) ==
    IF i >= Len(buffer_text) THEN result
    ELSE LET ch == buffer_text[i + 1]
         IN IF ch = CR
            THEN IF i + 1 < Len(buffer_text) /\ buffer_text[i + 2] = LF
                 THEN convert_loop(buffer_text, i + 2, target_ending, result \o target_ending)
                 ELSE convert_loop(buffer_text, i + 1, target_ending, result \o target_ending)
            ELSE IF ch = LF
            THEN convert_loop(buffer_text, i + 1, target_ending, result \o target_ending)
            ELSE convert_loop(buffer_text, i + 1, target_ending, Append(result, ch))

\* line_ending_type and the ending each stands for
line_ending_type == {"LF", "CRLF", "CR"}

\* the endings with that of CR written as "\n\r"
target_ending_of_mut(target) ==
    IF target = "LF" THEN <<LF>> ELSE IF target = "CRLF" THEN <<CR, LF>> ELSE <<LF, CR>>

target_ending_of(target) ==
    IF target = "LF" THEN <<LF>> ELSE IF target = "CRLF" THEN <<CR, LF>> ELSE <<CR>>

convert_line_endings(t, target, fill) ==
    LET result == convert_loop(to_string(t), 0, target_ending_of(target), <<>>)
        a == assign_range(clear(base(t)), result, fill)
    IN [self |-> invalidate_line_cache(derived(t, a.self)), ret |-> [kind |-> "void"],
        realloc |-> a.realloc]

\* the flags of detect_line_ending after the characters from position i on
RECURSIVE detect_loop(_, _, _)
detect_loop(t, i, has) ==
    IF i >= size(t) THEN has
    ELSE LET ch == elem(t, i)
         IN IF ch = CR
            THEN IF i + 1 < size(t) /\ elem(t, i + 1) = LF
                 THEN detect_loop(t, i + 1, [has EXCEPT !.crlf = TRUE])
                 ELSE detect_loop(t, i + 1, [has EXCEPT !.cr = TRUE])
            ELSE IF ch = LF
            THEN detect_loop(t, i + 1, [has EXCEPT !.lf = TRUE])
            ELSE detect_loop(t, i + 1, has)

\* What detect_line_ending returns for a text without line ending: CRLF in
\* a build with _WIN32 defined, LF in every other build.
system_line_endings == {"CRLF", "LF"}

\* detect_line_ending that prefers LF to CRLF
detect_line_ending_mut(t, system) ==
    LET has == detect_loop(t, 0, [crlf |-> FALSE, lf |-> FALSE, cr |-> FALSE])
    IN [self |-> t,
        ret |-> [kind |-> "line_ending_type",
                 value |-> IF has.lf THEN "LF" ELSE IF has.crlf THEN "CRLF"
                           ELSE IF has.cr THEN "CR" ELSE system],
        realloc |-> FALSE]

\* detect_line_ending() in a build whose default is system
detect_line_ending(t, system) ==
    LET has == detect_loop(t, 0, [crlf |-> FALSE, lf |-> FALSE, cr |-> FALSE])
    IN [self |-> t,
        ret |-> [kind |-> "line_ending_type",
                 value |-> IF has.crlf THEN "CRLF" ELSE IF has.lf THEN "LF"
                           ELSE IF has.cr THEN "CR" ELSE system],
        realloc |-> FALSE]

\* a & b, a | b and a << n on uint32_t operands. The operands of << are at
\* most 0x3F shifted by 12 and 0x07 shifted by 18, so no bit is shifted out.
RECURSIVE bit_and(_, _)
bit_and(a, b) ==
    IF a = 0 \/ b = 0 THEN 0
    ELSE (a % 2) * (b % 2) + 2 * bit_and(a \div 2, b \div 2)

RECURSIVE bit_or(_, _)
bit_or(a, b) ==
    IF a = 0 THEN b ELSE IF b = 0 THEN a
    ELSE (IF a % 2 = 1 \/ b % 2 = 1 THEN 1 ELSE 0) + 2 * bit_or(a \div 2, b \div 2)

shift_left(a, n) == a * 2^n

\* static_cast<unsigned char>(c) of a char c in -128..127
unsigned_char(c) == c % 256

\* is_utf8_continuation that takes every byte from 0x80 on
is_utf8_continuation_mut(byte) == byte >= 128

is_utf8_continuation(byte) == bit_and(byte, 192) = 128

utf8_char_length(first_byte) ==
    IF first_byte < 128 THEN 1
    ELSE IF bit_and(first_byte, 224) = 192 THEN 2
    ELSE IF bit_and(first_byte, 240) = 224 THEN 3
    ELSE IF bit_and(first_byte, 248) = 240 THEN 4
    ELSE 0

\* the byte at position i + j, masked with 0x3F
utf8_payload(t, i, j) == bit_and(unsigned_char(elem(t, i + j)), 63)

\* the loop of is_valid_utf8 from position i on
RECURSIVE utf8_loop(_, _)
utf8_loop(t, i) ==
    IF i >= size(t) THEN TRUE
    ELSE LET ch == unsigned_char(elem(t, i))
             char_len == utf8_char_length(ch)
             code_point ==
                 IF char_len = 2
                 THEN bit_or(shift_left(bit_and(ch, 31), 6), utf8_payload(t, i, 1))
                 ELSE IF char_len = 3
                 THEN bit_or(bit_or(shift_left(bit_and(ch, 15), 12),
                                    shift_left(utf8_payload(t, i, 1), 6)),
                             utf8_payload(t, i, 2))
                 ELSE bit_or(bit_or(bit_or(shift_left(bit_and(ch, 7), 18),
                                           shift_left(utf8_payload(t, i, 1), 12)),
                                    shift_left(utf8_payload(t, i, 2), 6)),
                             utf8_payload(t, i, 3))
         IN IF char_len = 0 THEN FALSE
            ELSE IF i + char_len > size(t) THEN FALSE
            ELSE IF \E j \in 1..(char_len - 1) :
                      ~is_utf8_continuation(unsigned_char(elem(t, i + j)))
            THEN FALSE
            ELSE IF char_len = 2 /\ code_point < 128 THEN FALSE
            ELSE IF char_len = 3 /\ code_point < 2048 THEN FALSE
            ELSE IF char_len = 3 /\ code_point >= 55296 /\ code_point <= 57343 THEN FALSE
            ELSE IF char_len = 4 /\ code_point < 65536 THEN FALSE
            ELSE IF char_len = 4 /\ code_point > 1114111 THEN FALSE
            ELSE utf8_loop(t, i + char_len)

is_valid_utf8(t) ==
    [self |-> t, ret |-> [kind |-> "bool", value |-> utf8_loop(t, 0)], realloc |-> FALSE]

\* load_from_file. file describes what the stream does: whether it opens,
\* whether tellg succeeds, the bytes of the file, how many of them read()
\* delivers, and which allocation (if any) throws.
load_from_file(t, file, fill) ==
    LET file_size == Len(file.bytes)
        c == clear(base(t))
        rsv == reserve(c, file_size, fill)
        bytes_read == min(file.gcount, file_size)
        a == IF bytes_read > 0
             THEN assign_range(rsv.self, SubSeq(file.bytes, 1, bytes_read), fill)
             ELSE rsv
        loaded == IF file_size > 0 THEN a.self ELSE c
    IN IF ~file.is_open \/ ~file.tellg
       THEN [self |-> t, ret |-> [kind |-> "bool", value |-> FALSE], realloc |-> FALSE]
       ELSE IF file_size > 0 /\ file.throws = "reserve"
       THEN [self |-> derived(t, c), ret |-> [kind |-> "bool", value |-> FALSE],
             realloc |-> FALSE]
       ELSE IF file_size > 0 /\ file.throws = "temp_buffer"
       THEN [self |-> derived(t, rsv.self), ret |-> [kind |-> "bool", value |-> FALSE],
             realloc |-> rsv.realloc]
       ELSE [self |-> invalidate_line_cache([derived(t, loaded) EXCEPT !.cursor_pos = 0]),
             ret |-> [kind |-> "bool", value |-> TRUE],
             realloc |-> file_size > 0]

move_cursor_to_start(t) ==
    [self |-> [t EXCEPT !.cursor_pos = 0], ret |-> [kind |-> "void"], realloc |-> FALSE]

move_cursor_to_end(t) ==
    [self |-> [t EXCEPT !.cursor_pos = size(t)], ret |-> [kind |-> "void"],
     realloc |-> FALSE]

move_cursor_left(t) ==
    [self |-> IF t.cursor_pos > 0 THEN [t EXCEPT !.cursor_pos = t.cursor_pos - 1] ELSE t,
     ret |-> [kind |-> "void"], realloc |-> FALSE]

move_cursor_right(t) ==
    [self |-> IF t.cursor_pos < size(t) THEN [t EXCEPT !.cursor_pos = t.cursor_pos + 1] ELSE t,
     ret |-> [kind |-> "void"], realloc |-> FALSE]

\* std::string::npos
npos == -1

\* std::string::find(str, pos): the lowest xpos >= pos at which str occurs
\* entirely inside s, npos when there is none.
RECURSIVE string_find(_, _, _)
string_find(s, str, pos) ==
    IF pos + Len(str) > Len(s) THEN npos
    ELSE IF SubSeq(s, pos + 1, pos + Len(str)) = str THEN pos
    ELSE string_find(s, str, pos + 1)

find_result(p, l, f) == [kind |-> "find_result", position |-> p, length |-> l, found |-> f]

\* find_text that gives up one position early
find_text_mut(t, search_text, start_pos) ==
    IF search_text = <<>> \/ start_pos + 1 >= size(t)
    THEN [self |-> t, ret |-> find_result(0, 0, FALSE), realloc |-> FALSE]
    ELSE LET found_pos == string_find(to_string(t), search_text, start_pos)
         IN [self |-> t,
             ret |-> IF found_pos # npos THEN find_result(found_pos, Len(search_text), TRUE)
                     ELSE find_result(0, 0, FALSE),
             realloc |-> FALSE]

\* find_text(search_text, start_pos)
find_text(t, search_text, start_pos) ==
    IF search_text = <<>> \/ start_pos >= size(t)
    THEN [self |-> t, ret |-> find_result(0, 0, FALSE), realloc |-> FALSE]
    ELSE LET buffer_text == to_string(t)
             found_pos == string_find(buffer_text, search_text, start_pos)
         IN [self |-> t,
             ret |-> IF found_pos # npos THEN find_result(found_pos, Len(search_text), TRUE)
                     ELSE find_result(0, 0, FALSE),
             realloc |-> FALSE]

\* The locals of replace_all when it enters its loop.
replace_all_frame(search_text, replacement) ==
    [pc |-> "loop", search_text |-> search_text, replacement |-> replacement,
     pos |-> 0, count |-> 0]

\* the body of the loop without the step past an empty replacement
replace_all_iteration_mut(t, fr, fill) ==
    LET result == find_text(t, fr.search_text, fr.pos).ret
        r == replace_text(t, result.position, result.length, fr.replacement, fill)
        pos == result.position + Len(fr.replacement)
    IN IF ~result.found
       THEN [self |-> t, frame |-> [fr EXCEPT !.pc = "return"], realloc |-> FALSE]
       ELSE [self |-> r.self,
             frame |-> [fr EXCEPT !.pos = pos, !.count = fr.count + 1,
                                  !.pc = IF pos >= size(r.self) THEN "return" ELSE "loop"],
             realloc |-> r.realloc]

\* One pass through the body of "while (true)" in replace_all, with locals fr.
\* pc tells whether the pass left the loop (by either break).
replace_all_iteration(t, fr, fill) ==
    LET result == find_text(t, fr.search_text, fr.pos).ret
        r == replace_text(t, result.position, result.length, fr.replacement, fill)
        pos0 == result.position + Len(fr.replacement)
        pos == IF fr.replacement = <<>> /\ pos0 = result.position THEN pos0 + 1 ELSE pos0
    IN IF ~result.found
       THEN [self |-> t, frame |-> [fr EXCEPT !.pc = "return"], realloc |-> FALSE]
       ELSE [self |-> r.self,
             frame |-> [fr EXCEPT !.pos = pos, !.count = fr.count + 1,
                                  !.pc = IF pos >= size(r.self) THEN "return" ELSE "loop"],
             realloc |-> r.realloc]

\* the loop of replace_all run to its return
RECURSIVE replace_all_loop(_, _, _, _)
replace_all_loop(t, fr, fill, reallocated) ==
    CHOOSE r \in {IF i.frame.pc = "return"
                  THEN [self |-> i.self, ret |-> [kind |-> "value", value |-> i.frame.count],
                        realloc |-> reallocated \/ i.realloc]
                  ELSE replace_all_loop(i.self, i.frame, fill, reallocated \/ i.realloc) :
                    i \in {replace_all_iteration(t, fr, fill)}} : TRUE

\* replace_all(search_text, replacement)
replace_all(t, search_text, replacement, fill) ==
    IF search_text = <<>>
    THEN [self |-> t, ret |-> [kind |-> "value", value |-> 0], realloc |-> FALSE]
    ELSE replace_all_loop(t, replace_all_frame(search_text, replacement), fill, FALSE)

\* std::isspace in the "C" locale: ' ', '\t', '\n', '\v', '\f', '\r'
isspace(ch) == ch \in {32, 9, 10, 11, 12, 13}

\* "while (pos < size() && !isspace((*this)[pos])) pos++"
RECURSIVE skip_word_right(_, _)
skip_word_right(t, pos) ==
    IF pos < size(t) /\ ~isspace(unsigned_char(elem(t, pos)))
    THEN skip_word_right(t, pos + 1) ELSE pos

\* "while (pos < size() && isspace((*this)[pos])) pos++"
RECURSIVE skip_space_right(_, _)
skip_space_right(t, pos) ==
    IF pos < size(t) /\ isspace(unsigned_char(elem(t, pos)))
    THEN skip_space_right(t, pos + 1) ELSE pos

\* "while (pos > 0 && isspace((*this)[pos])) pos--"
RECURSIVE skip_space_left(_, _)
skip_space_left(t, pos) ==
    IF pos > 0 /\ isspace(unsigned_char(elem(t, pos)))
    THEN skip_space_left(t, pos - 1) ELSE pos

\* "while (pos > 0 && !isspace((*this)[pos - 1])) pos--"
RECURSIVE skip_word_left(_, _)
skip_word_left(t, pos) ==
    IF pos > 0 /\ ~isspace(unsigned_char(elem(t, pos - 1)))
    THEN skip_word_left(t, pos - 1) ELSE pos

move_cursor_word_left(t) ==
    [self |-> IF t.cursor_pos = 0 THEN t
              ELSE [t EXCEPT !.cursor_pos =
                        skip_word_left(t, skip_space_left(t, t.cursor_pos - 1))],
     ret |-> [kind |-> "void"], realloc |-> FALSE]

move_cursor_word_right(t) ==
    [self |-> IF t.cursor_pos >= size(t) THEN t
              ELSE [t EXCEPT !.cursor_pos =
                        skip_space_right(t, skip_word_right(t, t.cursor_pos))],
     ret |-> [kind |-> "void"], realloc |-> FALSE]

\* ------------------------------------------------ text_editor_buffer calls
\* Texts handed to the constructor, to the calls, and found in files.
InitTexts == {<<>>, <<97, 98, LF, 99, 100, LF>>, <<97, CR, LF>>, Copies(SeedCapacity, 97)}

Texts == {<<>>, <<97, LF>>}

FileBytes == {<<>>, <<97, LF, 98>>}

\* Positions, counts, lines and columns handed to the calls.
TextPos(n) == {0, 1, n} \cap (0..n)

DeleteCounts == {0, 1, 3}

LineColumns == {<<0, 1>>, <<1, 0>>, <<1, 3>>, <<3, 0>>}

Lines == {0, 1, 3}

\* What a file can do: not open, fail tellg, deliver all or none of its
\* bytes, or make an allocation of load_from_file throw.
Files ==
    {[is_open |-> FALSE, tellg |-> TRUE, bytes |-> <<>>, gcount |-> 0, throws |-> "none"],
     [is_open |-> TRUE, tellg |-> FALSE, bytes |-> <<>>, gcount |-> 0, throws |-> "none"]}
    \cup {[is_open |-> TRUE, tellg |-> TRUE, bytes |-> bs, gcount |-> Len(bs),
           throws |-> "none"] : bs \in FileBytes}
    \cup {[is_open |-> TRUE, tellg |-> TRUE, bytes |-> <<97, LF, 98>>, gcount |-> g,
           throws |-> x] : g \in {0}, x \in {"none", "reserve", "temp_buffer"}}

\* text_editor_buffer() and text_editor_buffer(text)
InitText ==
    \E text \in InitTexts :
      \E f \in Fills(Len(text) > 0) :
        LET b == assign_range(gap_buffer, text, f).self
        IN /\ buffer = b.buffer
           /\ gap_start = b.gap_start
           /\ gap_end = b.gap_end
           /\ buffer_size = b.buffer_size
           /\ cursor_pos = 0
           /\ line_starts = <<>>
           /\ line_cache_valid = FALSE
           /\ op = [name |-> "text_editor_buffer"]
           /\ ret = [kind |-> "void"]
           /\ realloc = FALSE
           /\ ref = <<>>
           /\ ieOnly = TRUE
           /\ reserved = NoReserve
           /\ nOps = 0
           /\ other = gap_buffer
           /\ aliased = FALSE
           /\ frame = no_frame
           /\ live = 0..(Len(text) - 1)
           /\ guard = no_guard

\* One public call of text_editor_buffer: r is what the member function computed.
TextCall(call, r) ==
    LET res == r
        t == res.self
    IN /\ nOps < MaxTextOps
       /\ frame.pc = "idle"
       /\ t.buffer_size <= MaxSlots
       /\ buffer' = t.buffer
       /\ gap_start' = t.gap_start
       /\ gap_end' = t.gap_end
       /\ buffer_size' = t.buffer_size
       /\ cursor_pos' = t.cursor_pos
       /\ line_starts' = t.line_starts
       /\ line_cache_valid' = t.line_cache_valid
       /\ op' = call
       /\ ret' = res.ret
       /\ realloc' = res.realloc
       /\ nOps' = nOps + 1
       /\ UNCHANGED <<ref, ieOnly, reserved, other, aliased, frame, live, guard>>

\* insert_text(pos, text), pos <= size()
InsertText ==
    /\ nOps < MaxTextOps
    /\ \E p \in TextPos(size(self)), text \in Texts :
      \E f \in Fills(insert_text(text_self, p, text, Junk).realloc) :
        TextCall([name |-> "insert_text", pos |-> p, text |-> text],
                 insert_text(text_self, p, text, f))

\* insert_text(text): insert_text(cursor_pos, text). With cursor_pos beyond
\* size() the iterator handed to insert is outside the buffer (undefined).
InsertTextAtCursor ==
    \E text \in Texts :
      \E f \in Fills(cursor_pos <= size(self)
                     /\ insert_text(text_self, cursor_pos, text, Junk).realloc) :
        /\ cursor_pos <= size(self)
        /\ TextCall([name |-> "insert_text", pos |-> cursor_pos, text |-> text],
                    insert_text(text_self, cursor_pos, text, f))

DeleteText ==
    \E p \in TextPos(size(self)), c \in DeleteCounts :
      TextCall([name |-> "delete_text", pos |-> p, n |-> c], delete_text(text_self, p, c))

\* replace_text(pos, count, replacement), pos <= size()
ReplaceText ==
    \E p \in TextPos(size(self)), c \in DeleteCounts \ {0}, text \in Texts :
      \E f \in Fills(replace_text(text_self, p, c, text, Junk).realloc) :
        TextCall([name |-> "replace_text", pos |-> p, n |-> c, text |-> text],
                 replace_text(text_self, p, c, text, f))

SetCursorPosition ==
    \E p \in {1, size(self) + 1} :
      TextCall([name |-> "set_cursor_position", pos |-> p], set_cursor_position(text_self, p))

SetCursorLineColumn ==
    \E lc \in LineColumns :
      TextCall([name |-> "set_cursor_line_column", line |-> lc[1], column |-> lc[2]],
               set_cursor_line_column(text_self, lc[1], lc[2]))

MoveCursor ==
    \/ TextCall([name |-> "move_cursor_to_start"], move_cursor_to_start(text_self))
    \/ TextCall([name |-> "move_cursor_to_end"], move_cursor_to_end(text_self))
    \/ TextCall([name |-> "move_cursor_left"], move_cursor_left(text_self))
    \/ TextCall([name |-> "move_cursor_right"], move_cursor_right(text_self))

GetLineCount ==
    TextCall([name |-> "get_line_count"], get_line_count(text_self))

GetLineLength ==
    \E line \in Lines :
      TextCall([name |-> "get_line_length", line |-> line], get_line_length(text_self, line))

GetLine ==
    \E line \in Lines, ub \in Indeterminate :
      TextCall([name |-> "get_line", line |-> line], get_line(text_self, line, ub))

ConvertLineEndings ==
    \E target \in line_ending_type :
      \E f \in Fills(convert_line_endings(text_self, target, Junk).realloc) :
        TextCall([name |-> "convert_line_endings", target |-> target],
                 convert_line_endings(text_self, target, f))

LoadFromFile ==
    \E file \in Files :
      \E f \in Fills(load_from_file(text_self, file, Junk).realloc) :
        TextCall([name |-> "load_from_file", file |-> file],
                 load_from_file(text_self, file, f))

NextText ==
    \/ InsertText
    \/ InsertTextAtCursor
    \/ DeleteText
    \/ ReplaceText
    \/ SetCursorPosition
    \/ SetCursorLineColumn
    \/ MoveCursor
    \/ GetLineCount
    \/ GetLineLength
    \/ GetLine
    \/ ConvertLineEndings
    \/ LoadFromFile

SpecText == InitText /\ [][NextText]_vars

\* ------------------------------------------------------ search and replace
\* Texts the buffer is constructed from, texts searched for and replacements.
\* 102 111 111 32 98 97 114 is "foo bar".
SearchTexts ==
    {<<>>, <<97, 97, 97>>, <<97, 98, 97, 98>>,
     <<102, 111, 111, 32, 98, 97, 114, 32, 102, 111, 111>>}

ReplaceAllTexts == {<<>>, <<97, 97, 97>>, <<97, 98, 97, 98>>, <<98, 97, 120, 97>>}

Needles == {<<>>, <<97>>, <<97, 98>>, <<102, 111, 111>>, <<120>>}

Replacements == {<<>>, <<97>>, <<98>>, <<97, 97>>}

StartPos(n) == {0, 1, n - 1, n, n + 1} \cap (0..(n + 1))

\* text_editor_buffer(text) for a text of texts
Constructed(texts) ==
    \E text \in texts :
      \E f \in Fills(Len(text) > 0) :
        LET b == assign_range(gap_buffer, text, f).self
        IN /\ buffer = b.buffer
           /\ gap_start = b.gap_start
           /\ gap_end = b.gap_end
           /\ buffer_size = b.buffer_size
           /\ cursor_pos = 0
           /\ line_starts = <<>>
           /\ line_cache_valid = FALSE
           /\ op = [name |-> "text_editor_buffer"]
           /\ ret = [kind |-> "void"]
           /\ realloc = FALSE
           /\ ref = <<>>
           /\ ieOnly = TRUE
           /\ reserved = NoReserve
           /\ nOps = 0
           /\ other = gap_buffer
           /\ aliased = FALSE
           /\ frame = no_frame
           /\ live = 0..(Len(text) - 1)
           /\ guard = no_guard

InitSearch == Constructed(SearchTexts)

FindText ==
    \E text \in Needles, p \in StartPos(size(self)) :
      TextCall([name |-> "find_text", text |-> text, pos |-> p],
               find_text(text_self, text, p))

ReplaceAll ==
    /\ nOps < MaxTextOps
    /\ \E text \in Needles, replacement \in Replacements :
      \E f \in Fills(replace_all(text_self, text, replacement, Junk).realloc) :
        TextCall([name |-> "replace_all", text |-> text, replacement |-> replacement],
                 replace_all(text_self, text, replacement, f))

NextSearch ==
    \/ FindText
    \/ ReplaceAll
    \/ InsertText
    \/ DeleteText

SpecSearch == InitSearch /\ [][NextSearch]_vars

\* replace_all(search_text, replacement) up to the loop: it returns 0 for an
\* empty search_text and otherwise enters the loop with pos 0 and count 0.
ReplaceAllEnter ==
    \E text \in Needles, replacement \in Replacements :
      IF text = <<>>
      THEN TextCall([name |-> "replace_all", text |-> text, replacement |-> replacement],
                    replace_all(text_self, text, replacement, Junk))
      ELSE /\ frame.pc = "idle"
           /\ nOps < MaxTextOps
           /\ frame' = replace_all_frame(text, replacement)
           /\ op' = [name |-> "replace_all", text |-> text, replacement |-> replacement]
           /\ ret' = [kind |-> "void"]
           /\ realloc' = FALSE
           /\ nOps' = nOps + 1
           /\ UNCHANGED <<buffer, gap_start, gap_end, buffer_size, text_vars, ref, ieOnly,
                          reserved, other, aliased, live, guard>>

\* One pass through the loop of the running replace_all; a pass that breaks
\* also returns count.
ReplaceAllIteration ==
    /\ frame.pc = "loop"
    /\ \E f \in Fills(replace_all_iteration(text_self, frame, Junk).realloc) :
       \E i \in {replace_all_iteration(text_self, frame, f)} :
         LET t == i.self
         IN /\ buffer' = t.buffer
            /\ gap_start' = t.gap_start
            /\ gap_end' = t.gap_end
            /\ buffer_size' = t.buffer_size
            /\ cursor_pos' = t.cursor_pos
            /\ line_starts' = t.line_starts
            /\ line_cache_valid' = t.line_cache_valid
            /\ realloc' = (realloc \/ i.realloc)
            /\ frame' = IF i.frame.pc = "return"
                        THEN [i.frame EXCEPT !.pc = "idle"] ELSE i.frame
            /\ ret' = IF i.frame.pc = "return"
                      THEN [kind |-> "value", value |-> i.frame.count] ELSE ret
    /\ UNCHANGED <<op, nOps, ref, ieOnly, reserved, other, aliased, live, guard>>

NextReplaceAll ==
    \/ ReplaceAllEnter
    \/ ReplaceAllIteration
    \/ InsertText
    \/ DeleteText

InitReplaceAll == Constructed(ReplaceAllTexts)

SpecReplaceAll == InitReplaceAll /\ [][NextReplaceAll]_vars

\* replace_all on a buffer whose storage is full: a replacement longer than
\* the needle has to grow it.
FullTexts == {Copies(SeedCapacity, 97), Copies(SeedCapacity - 1, 97)}

InitFull == Constructed(FullTexts)

NextFull ==
    \/ FindText
    \/ ReplaceAll
    \/ DeleteText

SpecFull == InitFull /\ [][NextFull]_vars

\* ------------------------------------- inherited gap_buffer<char> calls
\* text_editor_buffer derives publicly from gap_buffer<char> and overrides
\* none of its members: a call of an inherited mutator changes the base
\* subobject and leaves cursor_pos, line_starts and line_cache_valid alone.
InheritedTexts == {<<>>, <<97, 98, LF, 99, 100, LF>>}

Chars == {97, LF}

InitInherited == Constructed(InheritedTexts)

InheritedCall(call, r) ==
    TextCall(call, [self |-> derived(text_self, r.self), ret |-> r.ret,
                    realloc |-> r.realloc])

BaseInsert ==
    \E p \in TextPos(size(self)), c \in Chars :
      \E f \in Fills(gap_end = gap_start) :
        InheritedCall([name |-> "insert", pos |-> p, val |-> c], insert(self, p, c, f))

BaseErase ==
    \E first \in TextPos(size(self)), last \in TextPos(size(self)) :
      /\ first <= last
      /\ InheritedCall([name |-> "erase", pos |-> first, n |-> last],
                       erase(self, first, last))

BasePushBack ==
    \E c \in Chars :
      \E f \in Fills(gap_end = gap_start) :
        InheritedCall([name |-> "push_back", val |-> c], push_back(self, c, f))

BasePopBack ==
    /\ ~empty(self)
    /\ InheritedCall([name |-> "pop_back"], pop_back(self))

BaseClear ==
    InheritedCall([name |-> "clear"],
                  [self |-> clear(self), ret |-> [kind |-> "void"], realloc |-> FALSE])

BaseResize ==
    \E n \in {0, MaxCount} :
      \E f \in Fills(n > capacity(self)) :
        InheritedCall([name |-> "resize", n |-> n], resize(self, n, DefaultValue, f))

BaseAssign ==
    \E xs \in {<<>>, <<97, LF>>} :
      \E f \in Fills(buffer_size < Len(xs)) :
        InheritedCall([name |-> "assign_range", xs |-> xs], assign_range(self, xs, f))

NextInherited ==
    \/ BaseInsert
    \/ BaseErase
    \/ BasePushBack
    \/ BasePopBack
    \/ BaseClear
    \/ BaseResize
    \/ BaseAssign
    \/ InsertText
    \/ DeleteText
    \/ SetCursorPosition
    \/ GetLineCount

SpecInherited == InitInherited /\ [][NextInherited]_vars

\* ------------------------------------------------- line and column
CursorTexts ==
    UNION {[1..n -> {97, LF}] : n \in 0..MaxTextLen} \cup {<<97, 98, LF, 99, 100, LF>>}

InitCursor == Constructed(CursorTexts)

GetCursorLineColumn ==
    TextCall([name |-> "get_cursor_line_column"], get_cursor_line_column(text_self))

NextCursor ==
    \/ SetCursorLineColumn
    \/ GetCursorLineColumn
    \/ GetLineCount
    \/ LoadFromFile

SpecCursor == InitCursor /\ [][NextCursor]_vars

\* ------------------------------------------------------------ line endings
\* Texts over 'a', '\n' and '\r' of up to MaxTextLen characters.
LineTexts == UNION {[1..n -> {97, LF, CR}] : n \in 0..MaxTextLen}

InitLines == Constructed(LineTexts)

DetectLineEnding ==
    \E system \in system_line_endings :
      TextCall([name |-> "detect_line_ending"], detect_line_ending(text_self, system))

NextLines ==
    \/ ConvertLineEndings
    \/ DetectLineEnding
    \/ SetCursorPosition

SpecLines == InitLines /\ [][NextLines]_vars

\* ------------------------------------------------------------------ UTF-8
\* The bytes tried: 0x7F, the ends of the ranges of continuation bytes
\* (0x80 0x8F 0x90 0x9F 0xA0 0xBF), and the lead bytes 0xC1 0xC2 0xE0 0xE1
\* 0xED 0xF0 0xF1 0xF4 0xF5 0xF8.
Bytes ==
    {127, 128, 143, 144, 159, 160, 191, 193, 194, 224, 225, 237, 240, 241, 244,
     245, 248}

\* The char (-128..127) that holds a byte of a std::string.
char_of(byte) == IF byte >= 128 THEN byte - 256 ELSE byte

\* Byte strings of up to MaxTextLen bytes, and the lead bytes of four-byte
\* sequences followed by three bytes.
Utf8Strings ==
    UNION {[1..n -> Bytes] : n \in 0..MaxTextLen}
    \cup {<<lead>> \o rest : lead \in {240, 241, 244, 245}, rest \in [1..3 -> Bytes]}

Utf8Texts == {[i \in 1..Len(bs) |-> char_of(bs[i])] : bs \in Utf8Strings}

InitUtf8 == Constructed(Utf8Texts)

IsValidUtf8 == TextCall([name |-> "is_valid_utf8"], is_valid_utf8(text_self))

NextUtf8 == IsValidUtf8

SpecUtf8 == InitUtf8 /\ [][NextUtf8]_vars

\* ------------------------------------------------------------ word motion
\* "ab cd", " ab", "ab  c" and "a\tb\nc"
WordTexts ==
    {<<>>, <<97, 98, 32, 99, 100>>, <<32, 97, 98>>, <<97, 98, 32, 32, 99>>,
     <<97, 9, 98, LF, 99>>}

InitWords == Constructed(WordTexts)

MoveCursorWordLeft ==
    /\ cursor_pos <= size(self)
    /\ TextCall([name |-> "move_cursor_word_left"], move_cursor_word_left(text_self))

MoveCursorWordRight ==
    TextCall([name |-> "move_cursor_word_right"], move_cursor_word_right(text_self))

NextWords ==
    \/ MoveCursorWordLeft
    \/ MoveCursorWordRight
    \/ MoveCursor
    \/ SetCursorPosition

SpecWords == InitWords /\ [][NextWords]_vars

\* ------------------------------------------------------ element lifetime
\* Which slots hold a constructed element after each member function, from
\* its calls of allocator_traits::construct and destroy; l is the set before.
\* move_gap calls neither: it move-assigns, so it leaves the set as it is.
\* The slots grow constructs in the new storage; the old storage is given up.
grow_live(b) ==
    IF b.buffer_size # 0 /\ size(b) > 0 THEN 0..(size(b) - 1) ELSE {}

\* The slots clear destroys.
clear_destroys(b) == (0..(b.gap_start - 1)) \cup (b.gap_end..(b.buffer_size - 1))

\* insert(pos, value) with count 1, insert(pos, count, value)
insert_live(b, l, position, count) ==
    LET m == move_gap(b, position)
        short == m.gap_end - m.gap_start < count
        g == IF short THEN grow_live(m) ELSE l
    IN IF count = 0 THEN l
       ELSE g \cup (m.gap_start..(m.gap_start + count - 1))

erase_live(b, l, first, last) ==
    LET m == move_gap(b, first)
        n == min(last - first, m.buffer_size - m.gap_end)
    IN IF first = last THEN l
       ELSE l \ (m.gap_end..(m.gap_end + n - 1))

pop_back_live(b, l) ==
    IF empty(b) THEN l
    ELSE IF size(b) - 1 < b.gap_start THEN l \ {b.gap_start - 1}
    ELSE l \ {size(b) - 1 + (b.gap_end - b.gap_start)}

RECURSIVE pop_back_times_live(_, _, _)
pop_back_times_live(b, l, n) ==
    IF n = 0 THEN l
    ELSE CHOOSE r \in {pop_back_times_live(popped, destroyed, n - 1) :
                         popped \in {pop_back(b).self},
                         destroyed \in {pop_back_live(b, l)}} : TRUE

reserve_live(b, l, new_cap) == IF new_cap > capacity(b) THEN grow_live(b) ELSE l

resize_live(b, l, count) ==
    LET current_size == size(b)
        m == move_gap(reserve(b, count, Junk).self, current_size)
    IN IF count > current_size
       THEN reserve_live(b, l, count)
            \cup (m.gap_start..(m.gap_start + (count - current_size) - 1))
       ELSE pop_back_times_live(b, l, current_size - count)

clear_live(b, l) == l \ clear_destroys(b)

\* ------------------------------------------------------ lifetime calls
\* One public call, r what it computed and l the slots it leaves constructed.
LifetimeCall(call, r, l) ==
    /\ nOps < MaxOps
    /\ r.self.buffer_size <= MaxSlots
    /\ buffer' = r.self.buffer
    /\ gap_start' = r.self.gap_start
    /\ gap_end' = r.self.gap_end
    /\ buffer_size' = r.self.buffer_size
    /\ op' = call
    /\ ret' = r.ret
    /\ realloc' = r.realloc
    /\ nOps' = nOps + 1
    /\ live' = l
    /\ UNCHANGED <<ref, ieOnly, reserved, other, aliased, text_vars, frame, guard>>

LifetimeInsert ==
    \E p \in PosSet(size(self)), v \in Values :
      \E f \in Fills(insert(self, p, v, Junk).realloc) :
        LifetimeCall([name |-> "insert", pos |-> p, val |-> v], insert(self, p, v, f),
                     insert_live(self, live, p, 1))

LifetimeInsertCount ==
    \E p \in PosSet(size(self)), n \in Counts :
      \E f \in Fills(insert_count(self, p, n, 1, Junk).realloc) :
        LifetimeCall([name |-> "insert", pos |-> p, n |-> n, val |-> 1],
                     insert_count(self, p, n, 1, f), insert_live(self, live, p, n))

LifetimePushBack ==
    \E v \in Values :
      \E f \in Fills(push_back(self, v, Junk).realloc) :
        LifetimeCall([name |-> "push_back", val |-> v], push_back(self, v, f),
                     insert_live(self, live, size(self), 1))

LifetimeErase ==
    \E first \in PosSet(size(self)), last \in PosSet(size(self)) :
      /\ first <= last
      /\ LifetimeCall([name |-> "erase", pos |-> first, n |-> last],
                      erase(self, first, last), erase_live(self, live, first, last))

LifetimePopBack ==
    LifetimeCall([name |-> "pop_back"], pop_back(self), pop_back_live(self, live))

LifetimeResize ==
    \E n \in Sizes :
      \E f \in Fills(resize(self, n, DefaultValue, Junk).realloc) :
        LifetimeCall([name |-> "resize", n |-> n], resize(self, n, DefaultValue, f),
                     resize_live(self, live, n))

LifetimeReserve ==
    \E n \in Sizes :
      \E f \in Fills(reserve(self, n, Junk).realloc) :
        LifetimeCall([name |-> "reserve", n |-> n], reserve(self, n, f),
                     reserve_live(self, live, n))

LifetimeClear ==
    LifetimeCall([name |-> "clear"],
                 [self |-> clear(self), ret |-> [kind |-> "void"], realloc |-> FALSE],
                 clear_live(self, live))

NextLifetime ==
    \/ LifetimeInsert
    \/ LifetimeInsertCount
    \/ LifetimePushBack
    \/ LifetimeErase
    \/ LifetimePopBack
    \/ LifetimeResize
    \/ LifetimeReserve
    \/ LifetimeClear

SpecLifetime == Init /\ [][NextLifetime]_vars

\* The logical sequence of the buffer.
Content == to_string(self)

\* The element the returned iterator designates, read through the storage
\* the call left behind.
RetDeref == deref(ret, buffer)

\* ------------------------------------------------------------------ claims

\* C1: starting from an empty buffer, after any sequence of insert and erase
\* calls within their preconditions, size() and the element at every logical
\* position equal those of a plain sequence driven by the same calls.
C1_RefinesVector ==
    ieOnly => (size(self) = Len(ref) /\ Content = ref)

\* C2: insert(p, v) with 0 <= p <= size() makes position p read v, increases
\* size() by exactly 1, leaves [0, p) in place and moves the former [p, size)
\* to [p+1, size+1) in order, also when the insert has to grow the storage.
C2_InsertShifts ==
    [][op'.name = "insert" =>
         /\ size(self') = size(self) + 1
         /\ elem(self', op'.pos) = op'.val
         /\ \A i \in 0..(op'.pos - 1) : elem(self', i) = elem(self, i)
         /\ \A i \in op'.pos..(size(self) - 1) : elem(self', i + 1) = elem(self, i)]_vars

\* C3: erase(first, last) with 0 <= first <= last <= size() decreases size()
\* by last - first, leaves [0, first) unchanged, makes position first read what
\* was at last, keeps the order of the remaining suffix, and returns an
\* iterator at logical position first, which is end() when last was the old size.
C3_EraseRemovesRange ==
    [][op'.name = "erase" =>
         LET first == op'.pos
             last == op'.n
         IN /\ size(self') = size(self) - (last - first)
            /\ \A i \in 0..(first - 1) : elem(self', i) = elem(self, i)
            /\ \A i \in first..(size(self) - (last - first) - 1) :
                  elem(self', i) = elem(self, i + (last - first))
            /\ ret'.kind = "iterator" /\ ret'.pos = first
            /\ last < size(self) =>
                  RetDeref' = [kind |-> "value", value |-> elem(self, last)]
            /\ last = size(self) => iter_eq(ret', end(self'))]_vars

\* C3 witness: an erase of a non-empty range from the middle has run, and the
\* returned iterator designates a surviving element.
C3_Witness ==
    /\ op.name = "erase"
    /\ 0 < op.pos /\ op.pos < op.n
    /\ op.pos < size(self)
    /\ RetDeref.kind = "value"

\* C4: on a non-empty buffer pop_back() removes exactly the element at logical
\* position size()-1 and leaves positions 0..size()-2 unchanged, for every
\* position of the gap.
C4_PopBackRemovesLast ==
    [][op'.name = "pop_back" =>
         /\ size(self') = size(self) - 1
         /\ \A i \in 0..(size(self) - 2) : elem(self', i) = elem(self, i)]_vars

\* C5: resize(n) with n < size() leaves size() == n and the elements at
\* positions 0..n-1 as before the call, for every position of the gap.
C5_ResizeShrinkKeepsPrefix ==
    [][(op'.name = "resize" /\ op'.n < size(self)) =>
         /\ size(self') = op'.n
         /\ \A i \in 0..(op'.n - 1) : elem(self', i) = elem(self, i)]_vars

\* C6: resize(n, fill) with n > size() leaves size() == n, the old positions
\* unchanged and every position old_size..n-1 equal to fill, for every position
\* of the gap before the call.
C6_ResizeGrowFills ==
    [][(op'.name = "resize_fill" /\ op'.n > size(self)) =>
         /\ size(self') = op'.n
         /\ \A i \in 0..(size(self) - 1) : elem(self', i) = elem(self, i)
         /\ \A i \in size(self)..(op'.n - 1) : elem(self', i) = op'.val]_vars

\* C7: insert(pos, count, value) and insert(pos, first, last) produce
\* old[0,pos) ++ inserted ++ old[pos,size), increase size() by the inserted
\* count and return an iterator at logical position pos whose dereference
\* yields the first inserted element.
C7_BulkInsert ==
    [][op'.name \in {"insert_count", "insert_range"} =>
         LET inserted == IF op'.name = "insert_count"
                         THEN Copies(op'.n, op'.val) ELSE op'.xs
         IN /\ size(self') = size(self) + Len(inserted)
            /\ Content' = InsertAt(Content, op'.pos, inserted)
            /\ ret'.kind = "iterator" /\ ret'.pos = op'.pos
            /\ inserted # <<>> =>
                  RetDeref' = [kind |-> "value", value |-> Head(inserted)]]_vars

\* C8: after reserve(n) no following single-element insert or push_back
\* replaces the storage while size() stays <= n, and reserve never reduces the
\* number of allocated slots.
C8_ReserveHolds ==
    [][/\ (op'.name \in {"insert", "push_back"} /\ \E n \in reserved' : size(self') <= n)
            => ~realloc'
       /\ op'.name = "reserve" => buffer_size' >= buffer_size]_vars

\* C8 witness: a push_back after reserve(n) brought a buffer that was full
\* before the reserve to n elements without replacing the storage.
C8_Witness ==
    /\ op.name = "push_back"
    /\ reserved = {SeedCapacity + 1}
    /\ size(self) = SeedCapacity + 1
    /\ ~realloc

\* C9: capacity() reports the number of slots of the owned region, so
\* size() == capacity() - (gap_end - gap_start) in every reachable state, and
\* capacity() >= n right after reserve(n).
C9_CapacityCountsSlots ==
    /\ size(self) = capacity(self) - (gap_end - gap_start)
    /\ op.name = "reserve" => capacity(self) >= op.n

\* C10: at(p) signals out_of_range exactly when p >= size() and leaves the
\* buffer unchanged; for p < size() it returns the element in physical slot p
\* if p < gap_start and in slot p + (gap_end - gap_start) otherwise.
C10_AtChecked ==
    [][op'.name = "at" =>
         LET p == op'.pos
             slot == IF p < gap_start THEN p ELSE p + (gap_end - gap_start)
         IN /\ (ret'.kind = "out_of_range") <=> (p >= size(self))
            /\ p < size(self) => ret' = [kind |-> "value", value |-> buffer[slot + 1]]
            /\ UNCHANGED <<buffer, gap_start, gap_end, buffer_size>>]_vars

\* C10 witness: at(size()) on a non-empty buffer has thrown.
C10_Witness ==
    /\ op.name = "at"
    /\ size(self) > 0
    /\ op.pos = size(self)
    /\ ret.kind = "out_of_range"


\* C11: assign(count, value) and assign(first, last) replace the content
\* wholesale from any prior state: afterwards size() is the number of source
\* elements and the logical sequence is the source sequence.
C11_AssignReplaces ==
    [][/\ op'.name = "assign_count" =>
            /\ size(self') = op'.n
            /\ to_string(self') = Copies(op'.n, op'.val)
       /\ op'.name = "assign_range" =>
            /\ size(self') = Len(op'.xs)
            /\ to_string(self') = op'.xs]_vars

\* assign(first, last) has replaced content held in storage that had grown.
C11_Witness ==
    /\ op.name = "assign_range"
    /\ op.xs = <<1, 2>>
    /\ buffer_size > SeedCapacity
    /\ Content = <<1, 2>>


\* C12: if the allocation inside grow() fails during insert, push_back,
\* emplace, reserve, resize or assign, the call has no partial effect: size()
\* and the element at every logical position are what they were before it.
C12_BadAllocNoEffect ==
    [][ret'.kind = "bad_alloc" =>
         /\ size(self') = size(self)
         /\ to_string(self') = to_string(self)]_vars


\* C13: copy construction and copy assignment yield a buffer whose logical
\* sequence equals the source's, for every gap position of the source, and
\* the two buffers are independent: a later mutation of one leaves the
\* logical content of the other unchanged.
C13_CopyIndependent ==
    [][/\ op'.name \in {"copy", "copy_assign"} =>
            /\ to_string(other') = to_string(self)
            /\ to_string(self') = to_string(self)
       /\ op'.name \in {"other.insert", "other.erase"} =>
            to_string(self') = to_string(self)
       /\ op'.name \in {"insert", "insert_range", "erase"} =>
            to_string(other') = to_string(other)]_vars

\* The copy of a buffer holding <<1, 2>> has been changed; the source has not.
C13_Witness ==
    /\ op.name = "other.insert"
    /\ Content = <<1, 2>>
    /\ size(other) = 3


\* ------------------------------------------------- text-level expectations
\* The logical positions just after each '\n' of s.
AfterNewlines(s) == {i \in 1..Len(s) : s[i] = LF}

\* The line starts of s: 0 and i + 1 for every position i holding '\n'.
IsLineStartsOf(starts, s) ==
    /\ Len(starts) = Cardinality(AfterNewlines(s)) + 1
    /\ starts[1] = 0
    /\ {starts[k] : k \in 2..Len(starts)} = AfterNewlines(s)
    /\ \A k \in 1..(Len(starts) - 1) : starts[k] < starts[k + 1]

\* C14: in every state reachable through the text-level operations,
\* 0 <= cursor_pos <= size().
C14_CursorInRange == 0 <= cursor_pos /\ cursor_pos <= size(self)

\* C15: whenever line_cache_valid is set, line_starts is exactly 0 followed
\* by i + 1 for every logical position i holding '\n' in the current
\* content, in increasing order.
C15_CacheFresh == line_cache_valid => IsLineStartsOf(line_starts, Content)

\* C16: get_line_count() is the number of '\n' plus one when the content
\* does not end in '\n', and the number of '\n' when it does ("ab\ncd\n"
\* has 2 lines).
C16_LineCount ==
    op.name = "get_line_count" =>
        ret.value = IF Len(Content) > 0 /\ Content[Len(Content)] = LF
                    THEN Cardinality(AfterNewlines(Content))
                    ELSE Cardinality(AfterNewlines(Content)) + 1


\* Line i of s (i counted from 0): from the i-th line start up to, and
\* excluding, the next '\n' or the end of s.
LineStartOf(s, i) ==
    IF i = 0 THEN 0
    ELSE CHOOSE p \in AfterNewlines(s) :
           Cardinality({q \in AfterNewlines(s) : q < p}) = i - 1

LineOf(s, i) ==
    LET start == LineStartOf(s, i)
        stops == {q \in 1..Len(s) : q > start /\ s[q] = LF}
        stop == IF stops = {} THEN Len(s)
                ELSE (CHOOSE q \in stops : \A r \in stops : q <= r) - 1
    IN SubSeq(s, start + 1, stop)

\* C17: for every i < get_line_count(), get_line(i) is the characters from
\* the i-th line start up to but excluding the next '\n' (or the end of the
\* buffer), it holds no '\n', and get_line_length(i) is its length; for
\* i >= get_line_count(), get_line returns "" and get_line_length returns 0.
C17_GetLine ==
    \A ub \in Indeterminate :
      \A i \in 0..(get_line_count(text_self).ret.value + 1) :
        LET g == get_line(text_self, i, ub).ret
            l == get_line_length(text_self, i).ret
        IN IF i < get_line_count(text_self).ret.value
           THEN /\ i <= Cardinality(AfterNewlines(Content))
                /\ g.kind = "string"
                /\ g.value = LineOf(Content, i)
                /\ \A k \in 1..Len(g.value) : g.value[k] # LF
                /\ l.value = Len(g.value)
           ELSE /\ g.kind = "string"
                /\ g.value = <<>>
                /\ l.value = 0

\* C18: insert_text(pos, text) with pos <= size() yields
\* old[0,pos) ++ text ++ old[pos,size) for every prior gap position and fill
\* level; the cursor moves right by text.length() if pos <= cursor_pos and is
\* unchanged otherwise; the line cache is invalid afterwards.
C18_InsertText ==
    [][op'.name = "insert_text" =>
         /\ to_string(self') = InsertAt(Content, op'.pos, op'.text)
         /\ cursor_pos' = IF op'.pos <= cursor_pos
                          THEN cursor_pos + Len(op'.text) ELSE cursor_pos
         /\ ~line_cache_valid']_vars

\* C19: delete_text(pos, count) removes min(count, size() - pos) characters
\* starting at pos; a cursor at or after the end of the removed range is
\* shifted left by the removed count, a cursor inside the removed range
\* becomes pos, and a cursor at or before pos is unchanged.
C19_DeleteText ==
    [][op'.name = "delete_text" =>
         LET pos == op'.pos
             n == min(op'.n, size(self) - pos)
         IN /\ to_string(self') = RemoveRange(Content, pos, pos + n)
            /\ cursor_pos' = IF cursor_pos >= pos + n THEN cursor_pos - n
                             ELSE IF cursor_pos > pos THEN pos
                             ELSE cursor_pos]_vars

\* delete_text(0, 3) has shifted a cursor that stood after the removed range.
C19_Witness ==
    /\ op.name = "delete_text"
    /\ op.pos = 0
    /\ op.n = 3
    /\ size(self) = 3
    /\ cursor_pos = 3

\* C20: replace_text(pos, count, replacement) with pos <= size() has the
\* effect on content and cursor of delete_text(pos, count) followed by
\* insert_text(pos, replacement): the content becomes
\* old[0,pos) ++ replacement ++ old[pos + min(count, size - pos), size).
C20_ReplaceText ==
    [][op'.name = "replace_text" =>
         LET pos == op'.pos
             n == min(op'.n, size(self) - pos)
             d == delete_text(text_self, pos, op'.n).self
         IN /\ \E f \in Indeterminate :
                 LET i == insert_text(d, pos, op'.text, f).self
                 IN /\ to_string(self') = to_string(i)
                    /\ cursor_pos' = i.cursor_pos
            /\ to_string(self') =
                 SubSeq(Content, 1, pos) \o op'.text
                   \o SubSeq(Content, pos + n + 1, Len(Content))]_vars


\* The positions at which needle occurs in s.
Occurrences(s, needle) ==
    {p \in 0..(Len(s) - Len(needle)) : SubSeq(s, p + 1, p + Len(needle)) = needle}

\* C21: find_text(needle, start) searches the logical content wherever the
\* gap is: it reports found with the least position >= start at which needle
\* occurs and with length needle.length(), reports not found when needle is
\* empty, start >= size() or there is no such occurrence, and leaves the
\* buffer as it was.
C21_FindText ==
    [][op'.name = "find_text" =>
         LET needle == op'.text
             start == op'.pos
             occ == {p \in Occurrences(Content, needle) : p >= start}
         IN /\ ret'.kind = "find_result"
            /\ IF needle = <<>> \/ start >= size(self) \/ occ = {}
               THEN ~ret'.found
               ELSE /\ ret'.found
                    /\ ret'.position \in occ
                    /\ \A p \in occ : ret'.position <= p
                    /\ ret'.length = Len(needle)
            /\ self' = self
            /\ UNCHANGED <<text_vars, other>>]_vars

\* "foo bar foo" with the gap inside it: find_text("foo", 1) found position 8.
C21_Witness ==
    /\ op.name = "find_text"
    /\ op.text = <<102, 111, 111>>
    /\ op.pos = 1
    /\ ret = find_result(8, 3, TRUE)
    /\ 0 < gap_start /\ gap_start < size(self) /\ gap_start < gap_end


\* s from position i on with the occurrences of needle, taken left to right,
\* left out, and how many were left out.
RECURSIVE Removed(_, _, _)
Removed(s, needle, i) ==
    IF i + Len(needle) > Len(s) THEN [text |-> SubSeq(s, i + 1, Len(s)), count |-> 0]
    ELSE IF SubSeq(s, i + 1, i + Len(needle)) = needle
    THEN LET r == Removed(s, needle, i + Len(needle))
         IN [text |-> r.text, count |-> r.count + 1]
    ELSE LET r == Removed(s, needle, i + 1)
         IN [text |-> <<s[i + 1]>> \o r.text, count |-> r.count]

\* C22: replace_all(needle, "") with a non-empty needle removes every
\* occurrence of needle from the content and returns how many it removed;
\* on "aaa", replace_all("a", "") returns 3 and leaves size() = 0.
C22_ReplaceAllRemoves ==
    [][op'.name = "replace_all" /\ op'.text # <<>> /\ op'.replacement = <<>> =>
         LET r == Removed(Content, op'.text, 0)
         IN /\ to_string(self') = r.text
            /\ ret' = [kind |-> "value", value |-> r.count]]_vars


\* C23: a replace_all call with a non-empty needle returns, whatever the
\* content and the replacement (empty, or containing the needle): every pass
\* through its loop that replaces an occurrence leaves the scan position
\* strictly greater than it was, and every pass that stays in the loop leaves
\* the unscanned length size() - pos positive and strictly smaller, so the
\* loop is left after at most size() passes.
C23_ReplaceAllTerminates ==
    [][frame.pc = "loop" /\ frame' # frame =>
         /\ frame'.count # frame.count => frame'.pos > frame.pos
         /\ frame'.pc = "loop" =>
              /\ 0 < size(self') - frame'.pos
              /\ size(self') - frame'.pos < size(self) - frame.pos
         /\ frame'.pc = "idle" => ret' = [kind |-> "value", value |-> frame'.count]]_vars

\* replace_all("a", "aa") on a content that holds "a" went twice through
\* its loop and returned.
C23_Witness ==
    /\ op.name = "replace_all"
    /\ op.text = <<97>>
    /\ op.replacement = <<97, 97>>
    /\ frame.pc = "idle"
    /\ ret.kind = "value" /\ ret.value >= 2


\* C24: convert_line_endings(X) is idempotent for X in {LF, CRLF, CR} on
\* every content mixing '\n', "\r\n", '\r' and ordinary characters: applying
\* it once more to what it left gives the same content, cursor and cache flag.
C24_ConvertIdempotent ==
    [][op'.name = "convert_line_endings" =>
         \A f \in Indeterminate :
           LET again == convert_line_endings(text_self', op'.target, f).self
           IN /\ to_string(again) = to_string(self')
              /\ again.cursor_pos = cursor_pos'
              /\ again.line_cache_valid = line_cache_valid']_vars

\* A conversion to CRLF left a text with an ordinary character and two "\r\n".
C24_Witness ==
    /\ op.name = "convert_line_endings"
    /\ op.target = "CRLF"
    /\ Content = <<CR, LF, 97, CR, LF>>

\* Position i of s starts a line terminator: a '\r', or a '\n' that is not
\* the second character of a "\r\n".
UnitStart(s, i) == s[i] = CR \/ (s[i] = LF /\ ~(i > 1 /\ s[i - 1] = CR))

NumUnits(s) == Cardinality({i \in 1..Len(s) : UnitStart(s, i)})

\* s from position i on with every terminator written as target.
RECURSIVE Converted(_, _, _)
Converted(s, i, target) ==
    IF i > Len(s) THEN <<>>
    ELSE (IF UnitStart(s, i) THEN target
          ELSE IF s[i] = LF THEN <<>> ELSE <<s[i]>>) \o Converted(s, i + 1, target)

\* C25: convert_line_endings(target) replaces each line terminator, taken
\* left to right with "\r\n" as one terminator and a lone '\r' or '\n' as one
\* each, by the target sequence, keeps every other character and the order,
\* and so keeps the number of terminators.
C25_ConvertUnits ==
    [][op'.name = "convert_line_endings" =>
         /\ to_string(self') = Converted(Content, 1, target_ending_of(op'.target))
         /\ NumUnits(to_string(self')) = NumUnits(Content)]_vars

\* A conversion to CR left two terminators after an ordinary character.
C25_Witness ==
    /\ op.name = "convert_line_endings"
    /\ op.target = "CR"
    /\ Content = <<97, CR, CR>>

\* C26: detect_line_ending returns CRLF when the content has a '\r'
\* immediately followed by '\n', otherwise LF when it has a '\n', otherwise
\* CR when it has a '\r', and the platform default when it has none; it
\* changes neither the content nor the cursor nor the line cache.
C26_DetectLineEnding ==
    [][op'.name = "detect_line_ending" =>
         LET s == Content
         IN /\ ret'.kind = "line_ending_type"
            /\ IF \E i \in 1..(Len(s) - 1) : s[i] = CR /\ s[i + 1] = LF
               THEN ret'.value = "CRLF"
               ELSE IF \E i \in 1..Len(s) : s[i] = LF THEN ret'.value = "LF"
               ELSE IF \E i \in 1..Len(s) : s[i] = CR THEN ret'.value = "CR"
               ELSE ret'.value \in system_line_endings
            /\ self' = self
            /\ UNCHANGED text_vars]_vars

\* detect_line_ending returned CRLF for a text that also has a lone '\n'.
C26_Witness ==
    /\ op.name = "detect_line_ending"
    /\ ret.kind = "line_ending_type" /\ ret.value = "CRLF"
    /\ \E i \in 1..Len(Content) : Content[i] = LF /\ (i = 1 \/ Content[i - 1] # CR)


\* The bytes of the content.
ContentBytes == [i \in 1..Len(Content) |-> Content[i] % 256]

\* bs[i] is a byte of lo..hi.
InRange(bs, i, lo, hi) == i <= Len(bs) /\ lo <= bs[i] /\ bs[i] <= hi

\* The length of the well-formed UTF-8 byte sequence that starts at position
\* i of bs (table 3-7 of the Unicode standard), 0 when there is none. The
\* second-byte ranges leave out the overlong forms (E0 80..9F, F0 80..8F),
\* the surrogates (ED A0..BF) and the code points above U+10FFFF (F4 90..BF).
WellFormedAt(bs, i) ==
    LET tail(n) == \A j \in 1..n : InRange(bs, i + j, 128, 191)
    IN IF InRange(bs, i, 0, 127) THEN 1
       ELSE IF InRange(bs, i, 194, 223) /\ tail(1) THEN 2
       ELSE IF InRange(bs, i, 224, 224) /\ InRange(bs, i + 1, 160, 191) /\ tail(2) THEN 3
       ELSE IF InRange(bs, i, 225, 236) /\ tail(2) THEN 3
       ELSE IF InRange(bs, i, 237, 237) /\ InRange(bs, i + 1, 128, 159) /\ tail(2) THEN 3
       ELSE IF InRange(bs, i, 238, 239) /\ tail(2) THEN 3
       ELSE IF InRange(bs, i, 240, 240) /\ InRange(bs, i + 1, 144, 191) /\ tail(3) THEN 4
       ELSE IF InRange(bs, i, 241, 243) /\ tail(3) THEN 4
       ELSE IF InRange(bs, i, 244, 244) /\ InRange(bs, i + 1, 128, 143) /\ tail(3) THEN 4
       ELSE 0

\* bs from position i on is a concatenation of well-formed sequences.
RECURSIVE WellFormed(_, _)
WellFormed(bs, i) ==
    IF i > Len(bs) THEN TRUE
    ELSE WellFormedAt(bs, i) # 0 /\ WellFormed(bs, i + WellFormedAt(bs, i))

\* C27: is_valid_utf8 returns true exactly when the content is a
\* concatenation of well-formed UTF-8 sequences: false for an invalid lead
\* byte (0x80-0xBF, 0xF8-0xFF), a sequence cut off by the end of the buffer,
\* a non-continuation byte inside a sequence, an overlong two-, three- or
\* four-byte form, an encoded surrogate and a code point above U+10FFFF; true
\* for every other byte sequence.
C27_ValidUtf8 ==
    [][op'.name = "is_valid_utf8" =>
         /\ ret' = [kind |-> "bool", value |-> WellFormed(ContentBytes, 1)]
         /\ self' = self]_vars

\* is_valid_utf8 returned true for U+10FFFF (F4 8F BF BF).
C27_Witness ==
    /\ op.name = "is_valid_utf8"
    /\ ContentBytes = <<244, 143, 191, 191>>
    /\ ret = [kind |-> "bool", value |-> TRUE]


\* C28: every load_from_file that returns false (the file cannot be opened,
\* the size query fails, or an exception is thrown while reading) leaves the
\* buffer cleared, size() = 0; a load that returns true, the stream having
\* delivered the bytes of the file, replaces the whole content with them,
\* sets cursor_pos to 0 and leaves the line cache invalid.
C28_LoadFromFile ==
    [][op'.name = "load_from_file" =>
         /\ ret'.kind = "bool"
         /\ ~ret'.value => size(self') = 0
         /\ ret'.value /\ op'.file.gcount = Len(op'.file.bytes) =>
              /\ to_string(self') = op'.file.bytes
              /\ cursor_pos' = 0
              /\ ~line_cache_valid']_vars

\* The first position from p on that holds no whitespace, and the first
\* that holds whitespace; Len(s) when there is none.
AfterSpaces(s, p) ==
    CHOOSE q \in p..Len(s) :
      /\ q = Len(s) \/ ~isspace(s[q + 1])
      /\ \A k \in p..(q - 1) : isspace(s[k + 1])

AfterToken(s, p) ==
    CHOOSE q \in p..Len(s) :
      /\ q = Len(s) \/ isspace(s[q + 1])
      /\ \A k \in p..(q - 1) : ~isspace(s[k + 1])

\* C29: move_cursor_word_right, from any cursor position below size(), skips
\* the whitespace run at the cursor and then the token that follows, so the
\* cursor ends at the end of that token (or at size()); it changes cursor_pos
\* only, never the content.
C29_WordRight ==
    [][op'.name = "move_cursor_word_right" /\ cursor_pos < size(self) =>
         /\ cursor_pos' = AfterToken(Content, AfterSpaces(Content, cursor_pos))
         /\ self' = self
         /\ UNCHANGED <<line_starts, line_cache_valid>>]_vars

\* The slots outside the gap.
OutsideGap == (0..(gap_start - 1)) \cup (gap_end..(buffer_size - 1))

\* C30: after every public gap_buffer operation the constructed slots are
\* exactly [0, gap_start) and [gap_end, buffer_size), and no slot of the gap
\* [gap_start, gap_end) is constructed; so every element ever constructed is
\* destroyed exactly once by the time the buffer is destroyed.
C30_ConstructedSlots == live = OutsideGap

\* C31: after any sequence of public calls made within their preconditions
\* (positions <= size(), first <= last, pop_back on a non-empty buffer),
\* gap_start <= gap_end <= buffer_size, and buffer is null (no storage, <<>>)
\* exactly when buffer_size is 0.
C31_GapWithinStorage ==
    /\ 0 <= gap_start
    /\ gap_start <= gap_end
    /\ gap_end <= buffer_size
    /\ (buffer = <<>>) <=> (buffer_size = 0)

\* A call grew the storage of a buffer that held elements, and elements lie on
\* both sides of a non-empty gap.
C31_Witness ==
    /\ realloc
    /\ buffer_size > SeedCapacity
    /\ 0 < gap_start
    /\ gap_start < gap_end
    /\ gap_end < buffer_size

\* C32: after a successful grow(), wherever the gap was before the call, the
\* live prefix followed by the live suffix occupies the leading slots
\* [0, old_size) of the new storage and the committed gap is at the end
\* (gap_start = old_size, gap_end = the new capacity), so the logical sequence
\* read through operator[] is unchanged.  reserve(n) with n > capacity() is
\* the public call whose whole effect is one grow().
C32_GrowCompacts ==
    [][(op'.name = "reserve" /\ realloc') =>
         LET old_size == size(self)
         IN /\ \A i \in 1..old_size : buffer'[i] = Content[i]
            /\ gap_start' = old_size
            /\ gap_end' = buffer_size'
            /\ Content' = Content]_vars

\* The state in which grow() was entered by the call op' made in this state.
EnteredGrow ==
    IF op'.name = "insert" THEN move_gap(self, op'.pos) ELSE self

\* What every element type gets: the new region is cleaned up and the
\* members are as grow() found them.
GrowRolledBack ==
    /\ guard'.destroyed = 0..(op'.k - 2)
    /\ guard'.deallocated = 1
    /\ gap_start' = EnteredGrow.gap_start
    /\ gap_end' = EnteredGrow.gap_end
    /\ buffer_size' = EnteredGrow.buffer_size

\* C33: if constructing the k-th element into the new region fails inside
\* grow(), the k-1 elements constructed so far are destroyed, the new region
\* is deallocated exactly once, and buffer, gap_start, gap_end, buffer_size
\* and all old elements are exactly as before grow() was entered (as stated:
\* for every element type).
C33_GrowFailureNoEffect ==
    [][ret'.kind = "construct_failed" =>
         /\ GrowRolledBack
         /\ buffer' = EnteredGrow.buffer]_vars

\* C33, amended: if constructing the k-th element fails inside grow(), the
\* k-1 elements constructed so far are destroyed, the new region is
\* deallocated exactly once and gap_start, gap_end, buffer_size and the
\* storage pointer are as before; the old elements are as before when grow()
\* copies them (T copy constructible), while for a move-only T the elements
\* already moved are left moved-from.
C33_GrowFailureCopies ==
    [][ret'.kind = "construct_failed" =>
         /\ GrowRolledBack
         /\ ~op'.moves => buffer' = EnteredGrow.buffer]_vars

\* C33 witness: the second construction of a grow() that copies has thrown,
\* with elements on both sides of the gap.
C33_Witness ==
    /\ ret.kind = "construct_failed"
    /\ ~op.moves
    /\ op.k >= 2
    /\ guard.constructed_count_ = op.k - 1
    /\ 0 < gap_start
    /\ gap_end < buffer_size

\* C34: for every target with 0 <= target <= size(), move_gap(target) ends
\* with gap_start = target, keeps the gap length gap_end - gap_start and
\* buffer_size, leaves the logical sequence unchanged, and moves exactly
\* |target - old gap_start| elements (none when target = gap_start): the
\* slots it writes are the |target - old gap_start| slots at the far end of the
\* gap, each receiving the element that lay across the gap from it.
\* insert(pos, first, first), the insert of an empty range, is the public
\* call whose whole effect is move_gap(pos).
C34_MoveGap ==
    [][(op'.name = "insert_range" /\ op'.xs = <<>>) =>
         LET target == op'.pos
             gap == gap_end - gap_start
             left == target < gap_start
             distance == IF left THEN gap_start - target ELSE target - gap_start
             written == IF left THEN (gap_end - distance)..(gap_end - 1)
                        ELSE gap_start..(gap_start + distance - 1)
             from(i) == IF left THEN i - gap ELSE i + gap
         IN /\ gap_start' = target
            /\ gap_end' - gap_start' = gap
            /\ buffer_size' = buffer_size
            /\ Content' = Content
            /\ Cardinality(written) = distance
            /\ \A i \in 0..(buffer_size - 1) :
                 buffer'[i + 1] = IF i \in written THEN buffer[from(i) + 1]
                                  ELSE buffer[i + 1]]_vars

\* C34 witness: the second call moved the gap from the end of a non-empty
\* buffer to its front (every first call leaves the gap at the end).
C34_Witness ==
    /\ nOps = 2
    /\ op.name = "insert_range"
    /\ op.xs = <<>>
    /\ op.pos = 0
    /\ gap_start = 0
    /\ size(self) > 1

\* C35: reserve(n) changes neither size() nor the element at any logical
\* position, for every n and every position of the gap at the time of the
\* call.
C35_ReserveKeepsContent ==
    [][op'.name = "reserve" =>
         /\ buffer_size' - (gap_end' - gap_start') = size(self)
         /\ \A p \in 0..(size(self) - 1) : Content'[p + 1] = elem(self, p)]_vars

\* C36: on a non-empty buffer, front() returns the element at logical
\* position 0 (the same element as operator[](0)) and back() the element at
\* logical position size() - 1, for every position of the gap, including a
\* gap that starts at physical slot 0.
C36_FrontBack ==
    [][~empty(self) =>
         /\ op'.name = "front" => ret' = [kind |-> "value", value |-> elem(self, 0)]
         /\ op'.name = "back"
              => ret' = [kind |-> "value", value |-> elem(self, size(self) - 1)]]_vars

\* C37: dereferencing an iterator never reads a slot that is not a live
\* element of its snapshot: for a logical position p < size it yields the same
\* element as operator[](p), and for every p >= size (including p = size, the
\* end() position) or a default-constructed iterator it throws out_of_range.
C37_DereferenceChecked ==
    [][op'.name = "dereference" =>
         IF ~op'.default /\ op'.pos < size(self)
         THEN ret' = [kind |-> "value", value |-> elem(self, op'.pos)]
         ELSE ret' = [kind |-> "out_of_range"]]_vars

\* s from position i on with the occurrences of needle, found left to right
\* and not overlapping, rewritten to replacement, and how many they are.
RECURSIVE Replaced(_, _, _, _)
Replaced(s, needle, replacement, i) ==
    IF i + Len(needle) > Len(s) THEN [text |-> SubSeq(s, i + 1, Len(s)), count |-> 0]
    ELSE IF SubSeq(s, i + 1, i + Len(needle)) = needle
    THEN LET r == Replaced(s, needle, replacement, i + Len(needle))
         IN [text |-> replacement \o r.text, count |-> r.count + 1]
    ELSE LET r == Replaced(s, needle, replacement, i + 1)
         IN [text |-> <<s[i + 1]>> \o r.text, count |-> r.count]

\* C38: replace_all(needle, replacement) with a non-empty replacement rewrites
\* exactly the non-overlapping occurrences of needle found scanning the
\* original content left to right, never rescans inserted replacement text (a
\* replacement containing needle is not replaced again), and returns the
\* number of those occurrences.
C38_ReplaceAllRewrites ==
    [][(op'.name = "replace_all" /\ op'.text # <<>> /\ op'.replacement # <<>>) =>
         LET r == Replaced(Content, op'.text, op'.replacement, 0)
         IN /\ to_string(self') = r.text
            /\ ret' = [kind |-> "value", value |-> r.count]]_vars

\* C39: the text-buffer invariants (0 <= cursor_pos <= size(), and
\* line_cache_valid implies that line_starts matches the current content) also
\* hold after calls of the publicly inherited gap_buffer mutators on a
\* text_editor_buffer (insert, erase, push_back, pop_back, clear, resize,
\* assign), interleaved in any order with the text-level operations and line
\* queries.
C39_InheritedKeepInvariants ==
    /\ 0 <= cursor_pos
    /\ cursor_pos <= size(self)
    /\ line_cache_valid => IsLineStartsOf(line_starts, Content)

\* C40: set_cursor_line_column(line, col) followed by
\* get_cursor_line_column() returns (line, min(col, length of that line)) for
\* every line < get_line_count(), the cursor never being placed past the
\* line's terminating '\n'; for line >= get_line_count() the cursor is set to
\* size().  Stated of the two calls made in turn on the buffer of every
\* reachable state.
C40_LineColumnRoundTrip ==
    \A lc \in LineColumns :
      LET line == lc[1]
          col == lc[2]
          s == set_cursor_line_column(text_self, line, col).self
          g == get_cursor_line_column(s).ret
      IN IF line < get_line_count(text_self).ret.value
         THEN /\ line <= Cardinality(AfterNewlines(Content))
              /\ g.line = line
              /\ g.column = min(col, Len(LineOf(Content, line)))
              /\ g.absolute_pos = LineStartOf(Content, line) + g.column
              /\ s.cursor_pos <= size(self)
         ELSE s.cursor_pos = size(self)

====
